---- MODULE Spec2Model ----
(***************************************************************************)
(* A model of arxiv-batch: the Similarity Matcher (utils.rs), the Record   *)
(* Linker (collector.rs), the Idempotency Ledger (cache.rs), the Resilient *)
(* Extractor (ai.rs), the Reporter (reporter.rs) and the two orchestrator  *)
(* commands post_a_new_paper / post_arxiv_papers (main.rs).                *)
(*                                                                         *)
(* Strings are sequences of code points.  The code points used are         *)
(*   1 = 'a'   2 = 'b'   3 = 'A'   4 = 'B'   5 = '\n'   6 = ' '            *)
(***************************************************************************)
EXTENDS Integers, Sequences, FiniteSets, TLC

(***************************************************************************)
(* Bounds of the model.                                                    *)
(***************************************************************************)
MaxTitleLen == 10
MaxResults == 2
MaxRuns == 2
MaxBatch == 2
MaxFaults == 1

(***************************************************************************)
(* utils.rs: the Similarity Matcher.                                       *)
(***************************************************************************)
Min2(a, b) == IF a <= b THEN a ELSE b

Max2(a, b) == IF a >= b THEN a ELSE b

\* str::to_lowercase on the modelled code points
ToLowerChar(c) == IF c = 3 THEN 1 ELSE IF c = 4 THEN 2 ELSE c

to_lowercase(str) == [i \in 1..Len(str) |-> ToLowerChar(str[i])]

\* str::replace("\n", " ")
replace_newline(str) == [i \in 1..Len(str) |-> IF str[i] = 5 THEN 6 ELSE str[i]]

\* One row of the matrix of levenshtein_dist: row[j + 1] models matrix[i + 1][j],
\* prev[j + 1] models matrix[i][j]; c1 is the i-th code point of s1.
RECURSIVE LevRow(_, _, _, _)
LevRow(row, prev, c1, s2) ==
  LET j == Len(row)
  IN IF j > Len(s2) THEN row
     ELSE LET cost == IF c1 = s2[j] THEN 0 ELSE 1
              cell == Min2(prev[j + 1] + 1, Min2(row[j] + 1, prev[j] + cost))
          IN LevRow(Append(row, cell), prev, c1, s2)

RECURSIVE LevRows(_, _, _, _)
LevRows(prev, i, s1, s2) ==
  IF i > Len(s1) THEN prev
  ELSE LevRows(LevRow(<<i>>, prev, s1[i], s2), i + 1, s1, s2)

\* levenshtein_dist with the first row of the matrix left at zero
levenshtein_dist_zero_row(s1, s2) ==
  LET len2 == Len(s2)
      row0 == [j \in 1..(len2 + 1) |-> 0]
  IN LevRows(row0, 1, s1, s2)[len2 + 1]

levenshtein_dist(s1, s2) ==
  LET len2 == Len(s2)
      row0 == [j \in 1..(len2 + 1) |-> j - 1]
  IN LevRows(row0, 1, s1, s2)[len2 + 1]

\* bound on the length of the strings the utility calls are made with
MaxStrLen == 3

(***************************************************************************)
(* IEEE-754 binary64 arithmetic, as far as levenshtein_dist_normalized and *)
(* levenshtein_similarity use it.  A 53- or 54-bit significand is a pair   *)
(* <<hi, lo>> that stands for hi * 2^26 + lo, with 0 <= lo < 2^26.  Every  *)
(* operation rounds to nearest, ties to even.                              *)
(***************************************************************************)
Limb == 67108864

RECURSIVE Pow2(_)
Pow2(k) == IF k = 0 THEN 1 ELSE 2 * Pow2(k - 1)

SigDbl(p, bit) == LET l == 2 * p[2] + bit IN <<2 * p[1] + (l \div Limb), l % Limb>>

SigInc(p) == LET l == p[2] + 1 IN <<p[1] + (l \div Limb), l % Limb>>

SigGe(a, b) == a[1] > b[1] \/ (a[1] = b[1] /\ a[2] >= b[2])

SigSub(a, b) == IF a[2] >= b[2] THEN <<a[1] - b[1], a[2] - b[2]>>
                ELSE <<a[1] - b[1] - 1, a[2] + Limb - b[2]>>

\* the 52 quotient bits that follow the leading one of d / m
RECURSIVE DivBits(_, _, _, _)
DivBits(sig, r, m, n) ==
  IF n = 0 THEN <<sig, r>>
  ELSE LET r2 == 2 * r
           bit == IF r2 >= m THEN 1 ELSE 0
           sig2 == SigDbl(sig, bit)
       IN IF sig2 = sig2 THEN DivBits(sig2, r2 - bit * m, m, n - 1) ELSE <<sig, r>>

RECURSIVE DivExp(_, _, _)
DivExp(d, m, k) == IF d * Pow2(k) >= m THEN k ELSE DivExp(d, m, k + 1)

\* rounds the quotient q = <<sig, remainder>> of DivBits to nearest, ties to even
F64DivRound(q, m, k) ==
  LET sig == q[1]
      r == q[2]
      up == 2 * r > m \/ (2 * r = m /\ sig[2] % 2 = 1)
      rounded == IF up THEN SigInc(sig) ELSE sig
  IN IF rounded = <<2 * Limb, 0>> THEN [sig |-> <<Limb, 0>>, exp |-> k - 1]
     ELSE [sig |-> rounded, exp |-> k]

F64DivAt(d, m, k) == F64DivRound(DivBits(<<0, 1>>, d * Pow2(k) - m, m, 52), m, k)

\* dist / max_len for 0 < dist < max_len: the value is sig * 2^(-52 - exp)
F64Div(d, m) == F64DivAt(d, m, DivExp(d, m, 1))

\* shifts a significand right by n bits, keeping the guard and sticky bits
RECURSIVE ShiftRight(_, _, _, _)
ShiftRight(sig, g, st, n) ==
  IF n = 0 THEN <<sig, g, st>>
  ELSE LET sig2 == <<sig[1] \div 2, (sig[2] \div 2) + (sig[1] % 2) * (Limb \div 2)>>
           st2 == IF st = 1 \/ g = 1 THEN 1 ELSE 0
       IN IF sig2 = sig2 /\ st2 = st2 THEN ShiftRight(sig2, sig[2] % 2, st2, n - 1)
          ELSE <<sig, g, st>>

\* rounds the shifted significand sh = <<sig, guard, sticky>> after adding 1.0
F64OnePlusRound(sh) ==
  LET y == <<sh[1][1] + Limb, sh[1][2]>>
      up == sh[2] = 1 /\ (sh[3] = 1 \/ y[2] % 2 = 1)
  IN IF up THEN SigInc(y) ELSE y

\* 1.0 + x for x = q.sig * 2^(-52 - q.exp) in (0, 1): the value is sig * 2^-52
F64OnePlus(q) == F64OnePlusRound(ShiftRight(q.sig, 0, 0, q.exp))

RecipStep(sig, r2, y, ge) == <<SigDbl(sig, IF ge THEN 1 ELSE 0), IF ge THEN SigSub(r2, y) ELSE r2>>

RECURSIVE RecipBits(_, _, _)
RecipBits(q, y, n) ==
  IF n = 0 THEN q
  ELSE LET q2 == RecipStep(q[1], SigDbl(q[2], 0), y, SigGe(SigDbl(q[2], 0), y))
       IN IF q2 = q2 THEN RecipBits(q2, y, n - 1) ELSE q

\* rounds the quotient q = <<sig, remainder>> of RecipBits to nearest, ties to even
F64RecipRound(q, y) ==
  LET sig == q[1]
      r2 == SigDbl(q[2], 0)
      up == (SigGe(r2, y) /\ r2 # y) \/ (r2 = y /\ sig[2] % 2 = 1)
  IN IF up THEN SigInc(sig) ELSE sig

\* 1.0 / y for y = ysig * 2^-52 in [1, 2]: the value is sig * 2^-53
F64Recip(y) ==
  IF y = <<Limb, 0>> THEN <<2 * Limb, 0>>
  ELSE F64RecipRound(RecipBits(<<<<0, 0>>, <<Limb, 0>>>>, y, 53), y)

\* The f64 that levenshtein_dist_normalized returns when the distance is d and
\* the longer string has m code points: dist as f64 / max_len as f64, which is
\* 0.0 / 0.0 = NaN for two empty strings.  A number is sig * 2^(-52 - exp).
NormalizedOf(d, m) ==
  IF m = 0 THEN [nan |-> TRUE, sig |-> <<0, 0>>, exp |-> 0]
  ELSE IF d = 0 THEN [nan |-> FALSE, sig |-> <<0, 0>>, exp |-> 0]
  ELSE IF d = m THEN [nan |-> FALSE, sig |-> <<Limb, 0>>, exp |-> 0]
  ELSE [nan |-> FALSE] @@ F64Div(d, m)

levenshtein_dist_normalized(s1, s2) ==
  NormalizedOf(levenshtein_dist(s1, s2), Max2(Len(s1), Len(s2)))

\* The f64 that levenshtein_similarity returns when the distance is d and the
\* longer string has m code points; [nan |-> TRUE] is 0.0 / 0.0 carried through.
\* A number is sig * 2^-53.
SimilarityOf(d, m) ==
  IF m = 0 THEN [nan |-> TRUE, sig |-> <<0, 0>>]
  ELSE IF d = 0 THEN [nan |-> FALSE, sig |-> <<2 * Limb, 0>>]
  ELSE IF d = m THEN [nan |-> FALSE, sig |-> <<Limb, 0>>]
  ELSE [nan |-> FALSE, sig |-> F64Recip(F64OnePlus(F64Div(d, m)))]

levenshtein_similarity(s1, s2) ==
  SimilarityOf(levenshtein_dist(s1, s2), Max2(Len(s1), Len(s2)))

\* the f64 literal 0.9 = 0x3FECCCCCCCCCCCCD = 0x1CCCCCCCCCCCCD * 2^-53
Threshold == <<120795955, 13421773>>

\* `*score >= 0.9`: false for NaN
ScoreAccepted(score) == ~score.nan /\ SigGe(score.sig, Threshold)

(***************************************************************************)
(* common.rs: Summary and Paper.                                           *)
(***************************************************************************)
SummaryFields == {"is_survey", "overview", "research_question", "task_category",
                  "task_as_words", "comparison_with_related_works", "proposed_method",
                  "datasets", "domain_as_words", "experiments", "analysis",
                  "contributions", "future_works"}

\* a Summary whose string fields all hold `text`
MkSummary(flag, text) == [f \in SummaryFields |-> IF f = "is_survey" THEN <<"bool", flag>>
                                                   ELSE <<"str", text>>]

\* #[derive(Default)] for Summary
DefaultSummary == MkSummary(FALSE, "")

\* DateTime::<Utc>::default() and utils::default_datetime(): the epoch
DefaultDate == "1970-01-01"

\* an absent Option<String> of a source's response
Null == "<null>"

\* utils::datetime_from_str: the date when it parses as %Y-%m-%d, else the epoch
ValidDates == {"2017-06-12", "2024-01-01"}

datetime_from_str(str) == IF str \in ValidDates THEN str ELSE DefaultDate

\* #[derive(Default)] for Paper.  original_text and original_text_map are
\* modelled by their lengths (the sections, the distinct section titles).
DefaultPaper ==
  [page_id |-> "", arxiv_id |-> "", ss_id |-> "", title |-> <<>>, authors |-> <<>>,
   abstract_text |-> "", publication_date |-> DefaultDate, keywords |-> <<>>,
   arxiv_primary_category |-> "", arxiv_categories |-> <<>>, url |-> "", doi |-> "",
   journal |-> "", publisher |-> "", bibtex |-> "", citation_count |-> 0,
   influential_citation_count |-> 0, reference_count |-> 0, citations |-> <<>>,
   references |-> <<>>, original_text_map_len |-> 0, original_text_len |-> 0,
   summary |-> DefaultSummary]

\* Author::from_ss_author: no page id yet, an absent author id becomes ""
from_ss_author(a) ==
  [page_id |-> "", ss_id |-> IF a.author_id = Null THEN "" ELSE a.author_id, name |-> a.name]

\* Paper::reference
Reference(ss_id, title, abstract_text, authors, publication_date) ==
  [DefaultPaper EXCEPT !.ss_id = ss_id, !.title = title, !.abstract_text = abstract_text,
                       !.authors = authors, !.publication_date = publication_date]

(***************************************************************************)
(* ai.rs: the Resilient Extractor.                                         *)
(***************************************************************************)
\* What the endpoint's first choice can hold: JSON objects (a map from key to
\* value) and text that is no JSON at all.
JsonObject(fields) == [json |-> TRUE, fields |-> fields]

NotJson == [json |-> FALSE, fields |-> <<>>]

Payloads == {JsonObject(MkSummary(TRUE, "s1")),
             JsonObject(MkSummary(FALSE, "s2")),
             JsonObject([f \in SummaryFields \cup {"extra"} |->
                            IF f = "is_survey" THEN <<"bool", FALSE>> ELSE <<"str", "s3">>]),
             JsonObject([f \in SummaryFields \ {"overview"} |->
                            IF f = "is_survey" THEN <<"bool", TRUE>> ELSE <<"str", "s4">>]),
             NotJson}

\* serde_json::from_str::<Summary>: every field of the struct is required,
\* unknown keys are ignored
DecodeSummary(payload) ==
  IF payload.json /\ SummaryFields \subseteq DOMAIN payload.fields
  THEN [ok |-> TRUE, summary |-> [f \in SummaryFields |-> payload.fields[f]]]
  ELSE [ok |-> FALSE, summary |-> DefaultSummary]

\* what openai.chat() can do: fail, answer with a first choice, answer with no choice
ChatOutcomes == {[kind |-> "err", payload |-> NotJson], [kind |-> "nochoice", payload |-> NotJson]}
                \cup {[kind |-> "ok", payload |-> p] : p \in Payloads}

Message(role, content) == [role |-> role, content |-> content]

\* get_instruction's assert!
TextIsPresent(paper) == paper.original_text_map_len > 0

get_messages(paper) ==
  << Message("system", <<"research assistant">>),
     Message("user", <<"prepare the summary of", paper.title>>),
     Message("user", <<"follow the instruction", "instruction_1.txt">>),
     Message("user", <<"paper content", paper.title, paper.original_text_map_len>>),
     Message("user", <<"summarize:">>) >>

CorrectiveTurns == << Message("system", <<"answer in JSON">>), Message("user", <<"summarize.">>) >>

RetryBudget == 5

\* One pass through the body of summarize's while loop, for one outcome of
\* openai.chat().  st = [messages, retry_count, summary, result], result "" while
\* the function has not returned.
ChatStepNoDecrement(st, outcome) ==
  IF outcome.kind = "err"
  THEN [st EXCEPT !.messages = st.messages \o CorrectiveTurns]
  ELSE IF outcome.kind = "nochoice"
  THEN [st EXCEPT !.result = "Panic"]
  ELSE LET dec == DecodeSummary(outcome.payload)
       IN IF dec.ok THEN [st EXCEPT !.summary = dec.summary, !.result = "Ok"]
          ELSE [st EXCEPT !.result = "ErrDecode"]

ChatStepKeepSummary(st, outcome) ==
  IF outcome.kind = "err"
  THEN [st EXCEPT !.retry_count = st.retry_count - 1,
                  !.messages = st.messages \o CorrectiveTurns]
  ELSE IF outcome.kind = "nochoice"
  THEN [st EXCEPT !.result = "Panic"]
  ELSE LET dec == DecodeSummary(outcome.payload)
       IN IF dec.ok THEN [st EXCEPT !.result = "Ok"]
          ELSE [st EXCEPT !.result = "ErrDecode"]

ChatStepRetryDecode(st, outcome) ==
  IF outcome.kind = "err"
  THEN [st EXCEPT !.retry_count = st.retry_count - 1,
                  !.messages = st.messages \o CorrectiveTurns]
  ELSE IF outcome.kind = "nochoice"
  THEN [st EXCEPT !.result = "Panic"]
  ELSE LET dec == DecodeSummary(outcome.payload)
       IN IF dec.ok THEN [st EXCEPT !.summary = dec.summary, !.result = "Ok"]
          ELSE [st EXCEPT !.retry_count = st.retry_count - 1,
                          !.messages = st.messages \o CorrectiveTurns]

ChatStepWriteThenDecode(st, outcome) ==
  IF outcome.kind = "err"
  THEN [st EXCEPT !.retry_count = st.retry_count - 1,
                  !.messages = st.messages \o CorrectiveTurns]
  ELSE IF outcome.kind = "nochoice"
  THEN [st EXCEPT !.result = "Panic"]
  ELSE LET dec == DecodeSummary(outcome.payload)
       IN IF dec.ok THEN [st EXCEPT !.summary = dec.summary, !.result = "Ok"]
          ELSE [st EXCEPT !.summary = dec.summary, !.result = "ErrDecode"]

ChatStepFreshTurns(st, outcome) ==
  IF outcome.kind = "err"
  THEN [st EXCEPT !.retry_count = st.retry_count - 1,
                  !.messages = SubSeq(st.messages, 1, 5) \o CorrectiveTurns]
  ELSE IF outcome.kind = "nochoice"
  THEN [st EXCEPT !.result = "Panic"]
  ELSE LET dec == DecodeSummary(outcome.payload)
       IN IF dec.ok THEN [st EXCEPT !.summary = dec.summary, !.result = "Ok"]
          ELSE [st EXCEPT !.result = "ErrDecode"]

ChatStep(st, outcome) ==
  IF outcome.kind = "err"
  THEN [st EXCEPT !.retry_count = st.retry_count - 1,
                  !.messages = st.messages \o CorrectiveTurns]
  ELSE IF outcome.kind = "nochoice"
  THEN [st EXCEPT !.result = "Panic"]
  ELSE LET dec == DecodeSummary(outcome.payload)
       IN IF dec.ok THEN [st EXCEPT !.summary = dec.summary, !.result = "Ok"]
          ELSE [st EXCEPT !.result = "ErrDecode"]

(* cache.rs: the Idempotency Ledger.                                       *)
(***************************************************************************)
MaxEntries == 2

\* Cache::new(): the path comes from CACHE_DIR, the lists are empty
CachePath == "cache.json"

EmptyMap == [k \in {} |-> ""]

NewCache == [path |-> CachePath, papers |-> <<>>, failed_papers |-> <<>>,
             authors |-> <<>>, author_map |-> EmptyMap]

\* PaperCache::from_paper(paper, failed_reason); reason "" stands for None
from_paper(paper, reason) ==
  [title |-> paper.title, ss_id |-> paper.ss_id, page_id |-> paper.page_id,
   failed_reason |-> reason]

\* #[derive(Serialize)] for PaperCache: failed_reason is skipped when empty
SerializePaper(e) ==
  [k \in {"title", "ss_id", "page_id"}
         \cup (IF e.failed_reason = "" THEN {} ELSE {"failed_reason"}) |->
     IF k = "title" THEN <<"title", e.title>>
     ELSE IF k = "ss_id" THEN <<"str", e.ss_id>>
     ELSE IF k = "page_id" THEN <<"str", e.page_id>>
     ELSE <<"str", e.failed_reason>>]

\* #[derive(Deserialize)] for PaperCache: failed_reason defaults to String::new()
DeserializePaper(o) ==
  [title |-> o["title"][2], ss_id |-> o["ss_id"][2], page_id |-> o["page_id"][2],
   failed_reason |-> IF "failed_reason" \in DOMAIN o THEN o["failed_reason"][2] ELSE ""]

SerializeAuthor(a) ==
  [k \in {"name", "ss_id", "page_id"} |->
     IF k = "name" THEN <<"str", a.name>>
     ELSE IF k = "ss_id" THEN <<"str", a.ss_id>>
     ELSE <<"str", a.page_id>>]

DeserializeAuthor(o) ==
  [name |-> o["name"][2], ss_id |-> o["ss_id"][2], page_id |-> o["page_id"][2]]

\* serde_json::to_string(&cache): path is skipped
Serialize(c) ==
  [papers |-> [i \in 1..Len(c.papers) |-> SerializePaper(c.papers[i])],
   failed_papers |-> [i \in 1..Len(c.failed_papers) |-> SerializePaper(c.failed_papers[i])],
   authors |-> [i \in 1..Len(c.authors) |-> SerializeAuthor(c.authors[i])],
   author_map |-> [k \in DOMAIN c.author_map |-> <<"str", c.author_map[k]>>]]

\* serde_json::from_str::<Cache>: path is PathBuf::default()
Deserialize(doc) ==
  [path |-> "",
   papers |-> [i \in 1..Len(doc.papers) |-> DeserializePaper(doc.papers[i])],
   failed_papers |-> [i \in 1..Len(doc.failed_papers) |-> DeserializePaper(doc.failed_papers[i])],
   authors |-> [i \in 1..Len(doc.authors) |-> DeserializeAuthor(doc.authors[i])],
   author_map |-> [k \in DOMAIN doc.author_map |-> doc.author_map[k][2]]]

\* A file of the cache directory: absent, a complete JSON document, or the
\* leading part of one (what std::fs::write leaves between opening the file
\* with truncation and the end of write_all).
NoFile == [kind |-> "none", doc |-> Serialize(NewCache)]

DocFile(doc) == [kind |-> "doc", doc |-> doc]

PartialFile(doc) == [kind |-> "partial", doc |-> doc]

\* Cache::load: Ok(Cache::new()) without a file, the parsed file with its path
\* set, or the error of serde_json
Cache_load(d) ==
  IF d.primary.kind = "none" THEN [status |-> "Ok", cache |-> NewCache]
  ELSE IF d.primary.kind = "doc"
  THEN [status |-> "Ok", cache |-> [Deserialize(d.primary.doc) EXCEPT !.path = CachePath]]
  ELSE [status |-> "Err", cache |-> NewCache]

\* Cache::save, the three effects on the file system in their order
CreateDir(d) == [d EXCEPT !.dir = TRUE]

CopyToBackupSkipped(d) == d

CopyToBackup(d) == [d EXCEPT !.backup = d.primary]

TruncatePrimary(d, c) == [d EXCEPT !.primary = PartialFile(Serialize(c))]

WritePrimary(d, c) == [d EXCEPT !.primary = DocFile(Serialize(c))]

\* Cache::save as a whole, when nothing interrupts it
Cache_save(c, d) ==
  LET d1 == CreateDir(d)
  IN IF d1.primary.kind = "none" THEN [result |-> "Err", disk |-> d1]
     ELSE [result |-> "Ok", disk |-> WritePrimary(TruncatePrimary(CopyToBackup(d1), c), c)]

\* HashMap::insert: the value of an existing key is replaced
MapInsert(map, k, v) == [x \in DOMAIN map \cup {k} |-> IF x = k THEN v ELSE map[x]]

\* .map(|x| (ssid, page_id)).collect() into the author map, entry by entry
RECURSIVE CollectAuthorMap(_, _)
CollectAuthorMap(authors, map) ==
  IF authors = <<>> THEN map
  ELSE CollectAuthorMap(Tail(authors),
                        MapInsert(map, Head(authors).ss_id, Head(authors).page_id))

\* Cache::build: the paper pages and the author pages of the store become the
\* lists, the author map is collected from the author list, and the cache
\* is saved
Cache_build(paper_pages, author_pages, d) ==
  LET c == [NewCache EXCEPT
              !.papers = [i \in 1..Len(paper_pages) |->
                            [paper_pages[i] EXCEPT !.failed_reason = ""]],
              !.authors = author_pages,
              !.author_map = CollectAuthorMap(author_pages, EmptyMap)]
      sv == Cache_save(c, d)
  IN [status |-> sv.result, cache |-> c, disk |-> sv.disk]

\* is_exist_paper reading the failed list as well as the paper list
is_exist_paper_or_failed(c, title) ==
  \/ \E i \in 1..Len(c.papers) : to_lowercase(c.papers[i].title) = to_lowercase(title)
  \/ \E j \in 1..Len(c.failed_papers) :
        to_lowercase(c.failed_papers[j].title) = to_lowercase(title)

\* is_exist_paper comparing the titles as they are
is_exist_paper_case_sensitive(c, title) ==
  \E i \in 1..Len(c.papers) : c.papers[i].title = title

is_exist_paper(c, title) ==
  \E i \in 1..Len(c.papers) : to_lowercase(c.papers[i].title) = to_lowercase(title)

is_exist_author(c, ss_id) == ss_id \in DOMAIN c.author_map

\* Option<String>: "" stands for None (no page id is empty)
get_author_id(c, ss_id) == IF ss_id \in DOMAIN c.author_map THEN c.author_map[ss_id] ELSE ""

add_paper(c, e) == [c EXCEPT !.papers = Append(c.papers, e)]

\* add_author that keeps the page id an id already has in the map
add_author_keep_first(c, a) ==
  [c EXCEPT !.authors = Append(c.authors, a),
            !.author_map = [k \in DOMAIN c.author_map \cup {a.ss_id} |->
                              IF k \in DOMAIN c.author_map THEN c.author_map[k]
                              ELSE a.page_id]]

add_author(c, a) ==
  [c EXCEPT !.authors = Append(c.authors, a),
            !.author_map = [k \in DOMAIN c.author_map \cup {a.ss_id} |->
                              IF k = a.ss_id THEN a.page_id ELSE c.author_map[k]]]

push_failed(c, e) == [c EXCEPT !.failed_papers = Append(c.failed_papers, e)]

\* the entries the ledger's own specification appends
PaperEntries ==
  { [title |-> <<1>>, ss_id |-> "s1", page_id |-> "p1", failed_reason |-> ""],
    [title |-> <<3>>, ss_id |-> "s2", page_id |-> "p2", failed_reason |-> ""] }

FailedEntries ==
  { [title |-> <<2>>, ss_id |-> "s3", page_id |-> "", failed_reason |-> "The paper is too short"],
    [title |-> <<1>>, ss_id |-> "", page_id |-> "", failed_reason |-> "Failed to get metadata from SS"] }

AuthorEntries ==
  { [name |-> "n1", ss_id |-> "a1", page_id |-> "q1"],
    [name |-> "n1", ss_id |-> "a1", page_id |-> "q2"],
    [name |-> "n2", ss_id |-> "a2", page_id |-> "q3"] }

EntryCount(c) == Len(c.papers) + Len(c.failed_papers) + Len(c.authors)


(***************************************************************************)
(* collector.rs: the Record Linker.                                        *)
(***************************************************************************)
\* the scores of update_from_arxiv / update_from_ss, in result order
Scores(title, results) ==
  [i \in 1..Len(results) |->
     levenshtein_similarity(to_lowercase(title), to_lowercase(results[i].title))]

\* a.0.partial_cmp(&b.0) == Ordering::Greater, for two numbers
ScoreGreater(a, b) == SigGe(a.sig, b.sig) /\ a.sig # b.sig

\* Iterator::max_by keeps the later of two elements unless the earlier one is
\* greater; partial_cmp(..).unwrap() panics on NaN, which index 0 stands for.
RECURSIVE MaxByFold(_, _, _)
MaxByFold(scores, best, i) ==
  IF i > Len(scores) THEN best
  ELSE IF scores[best].nan \/ scores[i].nan THEN 0
  ELSE IF ScoreGreater(scores[best], scores[i]) THEN MaxByFold(scores, best, i + 1)
  ELSE MaxByFold(scores, i, i + 1)

\* the 0.9 of `assert!(*score >= 0.9)` in tenths, and the shortest title on
\* which one edit lands exactly on it
ThresholdTenths == 9

Rep(c, n) == [i \in 1..n |-> c]

\* scores.iter().max_by(..).unwrap() followed by assert!(*score >= 0.9):
\* best is the index max_by yields (0 when the list is empty or a score is
\* NaN, where an unwrap panics), accepted tells whether the assert! holds.
BestOf(scores) == IF Len(scores) = 0 THEN 0 ELSE MaxByFold(scores, 1, 2)

Selected(scores, best) == [best |-> best, accepted |-> best # 0 /\ ScoreAccepted(scores[best])]

SelectFrom(scores) == Selected(scores, BestOf(scores))

SelectCandidate(title, results) == SelectFrom(Scores(title, results))

NestedReference(c) ==
  Reference(IF c.paper_id = Null THEN "" ELSE c.paper_id,
            replace_newline(c.title),
            IF c.abstract_text = Null THEN "" ELSE c.abstract_text,
            [i \in 1..Len(c.authors) |-> from_ss_author(c.authors[i])],
            IF c.publication_date = Null THEN DefaultDate
            ELSE datetime_from_str(c.publication_date))

\* "Update the paper" of update_from_arxiv, for the chosen candidate c
ArxivMerge(paper, overwrite, c) ==
  LET keep(old, new, empty) == IF old = empty \/ overwrite THEN new ELSE old
  IN [paper EXCEPT
        !.arxiv_id = c.id,
        !.title = replace_newline(c.title),
        !.abstract_text = keep(paper.abstract_text, c.abstract_text, ""),
        !.arxiv_primary_category = keep(paper.arxiv_primary_category, c.primary_category, ""),
        !.arxiv_categories = keep(paper.arxiv_categories, c.categories, <<>>),
        !.url = keep(paper.url, c.pdf_url, ""),
        !.doi = keep(paper.doi, c.doi, ""),
        !.journal = keep(paper.journal, "arXiv", ""),
        !.publisher = keep(paper.publisher, "arXiv", "")]

\* update_from_arxiv once the candidate is selected.  The outcome is
\* [result, paper, sel]: "Ok", or "Panic" (an unwrap or the assert!; the
\* process unwinds, so the paper is given as it was).
ArxivOutcome(paper, overwrite, results, sel) ==
  IF ~sel.accepted THEN [result |-> "Panic", paper |-> paper, sel |-> sel]
  ELSE [result |-> "Ok", sel |-> sel,
        paper |-> ArxivMerge(paper, overwrite, results[sel.best])]

\* update_from_arxiv for the result list `results` of arxiv.query()
update_from_arxiv(paper, overwrite, results) ==
  ArxivOutcome(paper, overwrite, results, SelectCandidate(paper.title, results))

\* whether "Update the paper" of update_from_ss unwraps a None of candidate c
SsUnwrapsNone(paper, overwrite, c) ==
  \/ c.paper_id = Null
  \/ ((paper.abstract_text = "" \/ overwrite) /\ c.abstract_text = Null)
  \/ ((paper.url = "" \/ overwrite) /\ c.url = Null)
  \/ ((paper.journal = "" \/ overwrite) /\ c.venue = Null)

\* "Update the paper" of update_from_ss, for the chosen candidate c
SsMerge(paper, overwrite, c) ==
  [paper EXCEPT
     !.ss_id = c.paper_id,
     !.title = replace_newline(c.title),
     !.abstract_text = IF @ = "" \/ overwrite THEN c.abstract_text ELSE @,
     !.url = IF @ = "" \/ overwrite THEN c.url ELSE @,
     !.journal = IF @ = "" \/ overwrite THEN c.venue ELSE @,
     !.publication_date = IF c.publication_date = Null THEN DefaultDate
                          ELSE datetime_from_str(c.publication_date),
     !.reference_count = c.reference_count,
     !.citation_count = c.citation_count,
     !.influential_citation_count = c.influential_citation_count,
     !.authors = [i \in 1..Len(c.authors) |-> from_ss_author(c.authors[i])],
     !.citations = [i \in 1..Len(c.citations) |-> NestedReference(c.citations[i])],
     !.references = [i \in 1..Len(c.references) |-> NestedReference(c.references[i])]]

\* update_from_ss once the candidate is selected: "Ok", or "Panic" (an
\* unwrap or the assert!)
SsOutcome(paper, overwrite, results, sel) ==
  IF ~sel.accepted THEN [result |-> "Panic", paper |-> paper, sel |-> sel]
  ELSE IF SsUnwrapsNone(paper, overwrite, results[sel.best])
  THEN [result |-> "Panic", paper |-> paper, sel |-> sel]
  ELSE [result |-> "Ok", sel |-> sel, paper |-> SsMerge(paper, overwrite, results[sel.best])]

\* update_from_ss for the outcome `response` = [ok, results] of
\* query_papers_by_title; "Err" is the query's error, passed on by `?`
update_from_ss(paper, overwrite, response) ==
  IF ~response.ok
  THEN [result |-> "Err", paper |-> paper, sel |-> [best |-> 0, accepted |-> FALSE]]
  ELSE SsOutcome(paper, overwrite, response.results,
                 SelectCandidate(paper.title, response.results))


(***************************************************************************)
(* reporter.rs: the destination store and the Reporter.                    *)
(***************************************************************************)
\* the opaque page id the store returns for its n-th page of a database
AuthorPageId(n) == "author-page-" \o ToString(n)

PaperPageId(n) == "paper-page-" \o ToString(n)

EmptyStore == [authors |-> <<>>, papers |-> <<>>]

\* add_a_paper, lines 396-411: the ledger's page ids of the authors, absent
\* ones dropped, cut to the first 100
RelationCap == 100

\* AuthorIds that keeps the ids past the cap instead of the first ones
AuthorIdsPastCap(paper, c) ==
  LET ids == [i \in 1..Len(paper.authors) |-> get_author_id(c, paper.authors[i].ss_id)]
      kept == SelectSeq(ids, LAMBDA x : x # "")
  IN IF Len(kept) > RelationCap THEN SubSeq(kept, RelationCap + 1, Len(kept)) ELSE kept

AuthorIds(paper, c) ==
  LET ids == [i \in 1..Len(paper.authors) |-> get_author_id(c, paper.authors[i].ss_id)]
      kept == SelectSeq(ids, LAMBDA x : x # "")
  IN IF Len(kept) > RelationCap THEN SubSeq(kept, 1, RelationCap) ELSE kept

\* add_a_paper past its dedup check, for the outcomes `created` of
\* create_a_page and `appended` of append_block_children.  sv is what
\* cache.save() returns for the ledger with the paper appended.
PaperPage(paper, c, id, appended) ==
  [title |-> paper.title, page_id |-> id, author_ids |-> AuthorIds(paper, c),
   content |-> appended]

ReportSaved(p1, c1, st1, sv) ==
  [status |-> IF sv.result = "Ok" THEN "Success" ELSE "Err",
   paper |-> p1, cache |-> c1, disk |-> sv.disk, store |-> st1]

\* ReportCreated that appends the paper whatever append_block_children returned
ReportCreatedAnyway(p1, c, d, st1, appended) ==
  ReportSaved(p1, add_paper(c, from_paper(p1, "")), st1,
              Cache_save(add_paper(c, from_paper(p1, "")), d))

ReportCreated(p1, c, d, st1, appended) ==
  IF ~appended
  THEN [status |-> "Failure", paper |-> p1, cache |-> c, disk |-> d, store |-> st1]
  ELSE ReportSaved(p1, add_paper(c, from_paper(p1, "")), st1,
                   Cache_save(add_paper(c, from_paper(p1, "")), d))

create_paper_page(paper, c, d, st, created, appended) ==
  IF Len(paper.authors) = 0 \/ ~is_exist_author(c, paper.authors[1].ss_id)
  THEN [status |-> "Panic", paper |-> paper, cache |-> c, disk |-> d, store |-> st]
  ELSE IF ~created
  THEN [status |-> "Failure", paper |-> paper, cache |-> c, disk |-> d, store |-> st]
  ELSE ReportCreated([paper EXCEPT !.page_id = PaperPageId(Len(st.papers) + 1)], c, d,
                     [st EXCEPT !.papers =
                        Append(st.papers,
                               PaperPage(paper, c, PaperPageId(Len(st.papers) + 1), appended))],
                     appended)

add_a_paper_unchecked(paper, c, d, st, created, appended) ==
  create_paper_page(paper, c, d, st, created, appended)

\* add_a_paper.  The outcome is [status, paper, cache, disk, store] with
\* status "Success", "PaperAlreadyExists", "Failure", "Err" or "Panic".
add_a_paper(paper, c, d, st, created, appended) ==
  IF is_exist_paper(c, paper.title)
  THEN [status |-> "PaperAlreadyExists", paper |-> paper, cache |-> c, disk |-> d, store |-> st]
  ELSE create_paper_page(paper, c, d, st, created, appended)

\* One pass through the body of add_authors' loop, for the author at index i
\* and the outcome `created` of create_a_page.  r = [status, authors, cache,
\* disk, store]; status stays "" while the loop goes on, "Failure" is
\* Ok(Failure), "Err" is the error of cache.save().
add_authors_step(r, i, created) ==
  LET a == r.authors[i]
      a1 == [a EXCEPT !.page_id = AuthorPageId(Len(r.store.authors) + 1)]
      c1 == add_author(r.cache, [name |-> a1.name, ss_id |-> a1.ss_id, page_id |-> a1.page_id])
  IN IF is_exist_author(r.cache, a.ss_id) THEN r
     ELSE IF ~created THEN [r EXCEPT !.status = "Failure"]
     ELSE [status |-> IF Cache_save(c1, r.disk).result = "Ok" THEN "" ELSE "Err",
           authors |-> [r.authors EXCEPT ![i] = a1],
           cache |-> c1,
           disk |-> Cache_save(c1, r.disk).disk,
           store |-> [r.store EXCEPT !.authors = Append(r.store.authors, a.ss_id)]]

RECURSIVE add_authors_loop(_, _, _)
add_authors_loop(r, i, outcomes) ==
  IF r.status # "" THEN r
  ELSE IF i > Len(r.authors) THEN [r EXCEPT !.status = "Success"]
  ELSE add_authors_loop(add_authors_step(r, i, outcomes[i]), i + 1, outcomes)

\* add_authors for the outcomes of its create_a_page calls, by author index
add_authors(authors, c, d, st, outcomes) ==
  add_authors_loop([status |-> "", authors |-> authors, cache |-> c, disk |-> d, store |-> st],
                   1, outcomes)

\* ai.summarize as a whole, for the outcomes of its chat calls in order:
\* [result, summary]
RECURSIVE SummarizeLoop(_, _)
SummarizeLoop(st, outcomes) ==
  IF st.result # "" THEN st
  ELSE IF st.retry_count = 0 THEN [st EXCEPT !.result = "Err"]
  ELSE SummarizeLoop(ChatStep(st, Head(outcomes)), Tail(outcomes))

summarize(paper, outcomes) ==
  IF ~TextIsPresent(paper) THEN [result |-> "Panic", summary |-> paper.summary]
  ELSE LET st == SummarizeLoop([messages |-> get_messages(paper), retry_count |-> RetryBudget,
                                summary |-> paper.summary, result |-> ""], outcomes)
       IN [result |-> st.result, summary |-> st.summary]

(***************************************************************************)
(* common.rs: the list views of Summary.                                   *)
(***************************************************************************)
\* the code points of "," and of "、"
Comma == 44

IdeographicComma == 12289

\* str::contains with a one-character pattern
contains(str, pat) == \E i \in 1..Len(str) : str[i] = pat

\* str::split with a one-character pattern, collected: the pieces between the
\* occurrences of the pattern, empty pieces included
RECURSIVE split(_, _)
split(str, pat) ==
  IF ~contains(str, pat) THEN <<str>>
  ELSE LET k == CHOOSE i \in 1..Len(str) :
                   str[i] = pat /\ \A j \in 1..(i - 1) : str[j] # pat
       IN <<SubSeq(str, 1, k - 1)>> \o split(SubSeq(str, k + 1, Len(str)), pat)

\* Summary::task_as_vec on the value of task_as_words
task_as_vec(task_as_words) ==
  IF contains(task_as_words, Comma) THEN split(task_as_words, Comma)
  ELSE IF contains(task_as_words, IdeographicComma)
       THEN split(task_as_words, IdeographicComma)
  ELSE <<task_as_words>>

\* Summary::domain_as_vec on the value of domain_as_words
domain_as_vec(domain_as_words) ==
  IF contains(domain_as_words, Comma) THEN split(domain_as_words, Comma)
  ELSE IF contains(domain_as_words, IdeographicComma)
       THEN split(domain_as_words, IdeographicComma)
  ELSE <<domain_as_words>>

(***************************************************************************)
(* The state.                                                              *)
(***************************************************************************)
VARIABLES
  \* ai.rs, a call of AI::summarize
  ai_pc,        \* where summarize stands: "idle", "loop", "done"
  ai_paper,     \* the caller's paper
  messages,     \* the running conversation
  retry_count,  \* attempts left
  ai_result,    \* "", "Ok", "Err", "ErrDecode", "Panic"
  chat_log,     \* every chat call made: the messages sent and the outcome
  \* collector.rs, a call of update_from_arxiv or update_from_ss
  lk_pc,        \* "ready", "done"
  lk_paper,     \* the caller's paper
  lk_call,      \* the call made: source, overwrite, the source's response
  lk_result,    \* "", "Ok", "Err", "Panic"
  lk_sel,       \* the candidate max_by chose and whether the assert! held
  lk_before,    \* the caller's paper as it was before the call
  \* cache.rs and the cache directory
  disk,         \* dir, primary (cache.json), backup (cache.org.json)
  cache,        \* the Cache value the process holds
  sv_pc,        \* where Cache::save stands: "idle", "copied", "writing", "done", "crashed"
  sv_result,    \* what the last save returned: "", "Ok", "Err"
  sv_before,    \* the directory as it was when the save in progress began
  loaded,       \* what the last Cache::load returned, and when it ran
  \* main.rs, a run of post_a_new_paper or post_arxiv_papers
  pc,           \* where the run stands; "idle" between runs
  mode,         \* "single" (post_a_new_paper) or "batch" (post_arxiv_papers)
  todo,         \* the papers of the batch not yet started
  paper,        \* the paper being processed
  pdf,          \* whether --pdf was given (post_a_new_paper)
  runs,         \* runs started so far
  faults,       \* failures the sources, the endpoint and the store have answered with in this run
  store,        \* the destination store: the author pages and paper pages created
  panic,        \* the message of the panic that ended the last run, "" if none
  last_link,    \* the last link call of the run: source, result, candidates offered, assert! held
  item_log,     \* how each item of the current run ended: title, outcome, reason
  \* utils.rs and common.rs, a call of one of their functions
  u_pc,         \* "ready", "done"
  u_call,       \* the call made: the function and its arguments
  u_out,        \* what the call returned
  \* reporter.rs and cache.rs, the loop of add_authors or of Cache::build
  lp_pc,        \* where the function stands; "idle" outside of it
  lp_i,         \* add_authors: the index of the author in turn; build: the start cursor
  lp_more,      \* build: has_more
  lp_tick,      \* build: the parity of the number of queries that failed
  lp_result     \* what the function returned: "", "Success", "Failure", "Ok", "Err"

aiVars == <<ai_pc, ai_paper, messages, retry_count, ai_result, chat_log>>

linkVars == <<lk_pc, lk_paper, lk_call, lk_result, lk_sel, lk_before>>

saveVars == <<sv_pc, sv_result, sv_before, loaded>>

fsVars == <<disk, cache, sv_pc, sv_result, sv_before, loaded>>

runVars == <<pc, mode, todo, paper, pdf, runs, faults, store, panic, last_link, item_log>>

utilVars == <<u_pc, u_call, u_out>>

loopVars == <<lp_pc, lp_i, lp_more, lp_tick, lp_result>>

vars == <<aiVars, linkVars, fsVars, runVars, utilVars, loopVars>>

NoLoad == [status |-> "", cache |-> NewCache, at |-> ""]

EmptyDisk == [dir |-> FALSE, primary |-> NoFile, backup |-> NoFile]

NoCall == [source |-> "", overwrite |-> FALSE, response |-> [ok |-> TRUE, results |-> <<>>]]

NoSel == [best |-> 0, accepted |-> FALSE]

NoLink == [source |-> "", result |-> "", candidates |-> 0, accepted |-> FALSE]

NoUtilCall == [fn |-> "", a |-> <<>>, b |-> <<>>]

\* the parts of the state a specification does not use stay at these values
AiIdle ==
  /\ ai_pc = "idle"
  /\ ai_paper = DefaultPaper
  /\ messages = <<>>
  /\ retry_count = 0
  /\ ai_result = ""
  /\ chat_log = <<>>

LinkIdle ==
  /\ lk_pc = "done"
  /\ lk_paper = DefaultPaper
  /\ lk_call = NoCall
  /\ lk_result = ""
  /\ lk_sel = NoSel
  /\ lk_before = DefaultPaper

SaveIdle ==
  /\ sv_pc = "idle"
  /\ sv_result = ""
  /\ sv_before = EmptyDisk
  /\ loaded = NoLoad

FsIdle ==
  /\ disk = EmptyDisk
  /\ cache = NewCache
  /\ SaveIdle

RunIdle ==
  /\ pc = "idle"
  /\ mode = ""
  /\ todo = <<>>
  /\ paper = DefaultPaper
  /\ pdf = FALSE
  /\ runs = 0
  /\ faults = 0
  /\ store = EmptyStore
  /\ panic = ""
  /\ last_link = NoLink
  /\ item_log = <<>>

UtilIdle ==
  /\ u_pc = "done"
  /\ u_call = NoUtilCall
  /\ u_out = <<>>

LoopIdle ==
  /\ lp_pc = "idle"
  /\ lp_i = 0
  /\ lp_more = FALSE
  /\ lp_tick = 0
  /\ lp_result = ""

(***************************************************************************)
(* SpecAI: one call of AI::summarize.                                      *)
(***************************************************************************)
\* the papers summarize is called on
AiPapers ==
  { [DefaultPaper EXCEPT !.title = t, !.original_text_len = n,
                         !.original_text_map_len = n, !.summary = s] :
      t \in {<<1, 1>>, <<2>>}, n \in {0, 1, 4},
      s \in {DefaultSummary, MkSummary(FALSE, "old")} }

InitAI ==
  /\ ai_pc = "idle"
  /\ ai_paper \in AiPapers
  /\ messages = <<>>
  /\ retry_count = 0
  /\ ai_result = ""
  /\ chat_log = <<>>
  /\ LinkIdle /\ FsIdle /\ RunIdle /\ UtilIdle /\ LoopIdle

\* summarize up to the loop: get_messages, get_json_schema, retry_count = 5
SummarizeStart ==
  /\ ai_pc = "idle"
  /\ IF TextIsPresent(ai_paper)
     THEN /\ messages' = get_messages(ai_paper)
          /\ retry_count' = RetryBudget
          /\ ai_pc' = "loop"
          /\ ai_result' = ""
     ELSE /\ ai_pc' = "done"
          /\ ai_result' = "Panic"
          /\ UNCHANGED <<messages, retry_count>>
  /\ UNCHANGED <<ai_paper, chat_log>>
  /\ UNCHANGED <<linkVars, fsVars, runVars, utilVars, loopVars>>

\* one iteration of the while loop: a chat call and what follows it
SummarizeAttempt ==
  /\ ai_pc = "loop"
  /\ retry_count > 0
  /\ \E outcome \in ChatOutcomes :
       LET st == ChatStep([messages |-> messages, retry_count |-> retry_count,
                           summary |-> ai_paper.summary, result |-> ""], outcome)
       IN /\ chat_log' = Append(chat_log, [messages |-> messages, outcome |-> outcome])
          /\ messages' = st.messages
          /\ retry_count' = st.retry_count
          /\ ai_paper' = [ai_paper EXCEPT !.summary = st.summary]
          /\ ai_result' = st.result
          /\ ai_pc' = IF st.result = "" THEN "loop" ELSE "done"
  /\ UNCHANGED <<linkVars, fsVars, runVars, utilVars, loopVars>>

\* the loop condition fails: return Err("Failed to summarize.")
SummarizeExhausted ==
  /\ ai_pc = "loop"
  /\ retry_count = 0
  /\ ai_pc' = "done"
  /\ ai_result' = "Err"
  /\ UNCHANGED <<ai_paper, messages, retry_count, chat_log>>
  /\ UNCHANGED <<linkVars, fsVars, runVars, utilVars, loopVars>>

NextAI == SummarizeStart \/ SummarizeAttempt \/ SummarizeExhausted

SpecAI == InitAI /\ [][NextAI]_vars

(***************************************************************************)
(* SpecCache: the ledger between its mutations, Cache::save step by step,  *)
(* a crash in the middle of a save, and Cache::load.                       *)
(***************************************************************************)
InitialDisks ==
  { EmptyDisk,
    [dir |-> TRUE, primary |-> NoFile, backup |-> NoFile],
    [dir |-> TRUE, primary |-> DocFile(Serialize(NewCache)), backup |-> NoFile] }

InitCache ==
  /\ disk \in InitialDisks
  /\ cache = Cache_load(disk).cache
  /\ sv_pc = "idle"
  /\ sv_result = ""
  /\ sv_before = disk
  /\ loaded = NoLoad
  /\ AiIdle /\ LinkIdle /\ RunIdle /\ UtilIdle /\ LoopIdle

\* cache.add_paper / cache.failed_papers.push / cache.add_author between saves
AddPaperEntry ==
  /\ sv_pc = "idle"
  /\ EntryCount(cache) < MaxEntries
  /\ \E e \in PaperEntries : cache' = add_paper(cache, e)
  /\ UNCHANGED <<disk, sv_pc, sv_result, sv_before, loaded>>
  /\ UNCHANGED <<aiVars, linkVars, runVars, utilVars, loopVars>>

AddFailedEntry ==
  /\ sv_pc = "idle"
  /\ EntryCount(cache) < MaxEntries
  /\ \E e \in FailedEntries : cache' = push_failed(cache, e)
  /\ UNCHANGED <<disk, sv_pc, sv_result, sv_before, loaded>>
  /\ UNCHANGED <<aiVars, linkVars, runVars, utilVars, loopVars>>

AddAuthorEntry ==
  /\ sv_pc = "idle"
  /\ EntryCount(cache) < MaxEntries
  /\ \E a \in AuthorEntries : cache' = add_author(cache, a)
  /\ UNCHANGED <<disk, sv_pc, sv_result, sv_before, loaded>>
  /\ UNCHANGED <<aiVars, linkVars, runVars, utilVars, loopVars>>

\* save, lines 78-86: create the directory, then std::fs::copy(path, org_path)?
SaveCopy ==
  /\ sv_pc = "idle"
  /\ sv_before' = disk
  /\ LET d1 == CreateDir(disk)
     IN IF d1.primary.kind = "none"
        THEN /\ disk' = d1
             /\ sv_pc' = "done"
             /\ sv_result' = "Err"
        ELSE /\ disk' = CopyToBackup(d1)
             /\ sv_pc' = "copied"
             /\ sv_result' = ""
  /\ loaded' = NoLoad
  /\ UNCHANGED cache
  /\ UNCHANGED <<aiVars, linkVars, runVars, utilVars, loopVars>>

\* save, line 89: std::fs::write opens the primary file with truncation ...
SaveTruncate ==
  /\ sv_pc = "copied"
  /\ disk' = TruncatePrimary(disk, cache)
  /\ sv_pc' = "writing"
  /\ UNCHANGED <<cache, sv_result, sv_before, loaded>>
  /\ UNCHANGED <<aiVars, linkVars, runVars, utilVars, loopVars>>

\* ... and writes the whole serialization
SaveWrite ==
  /\ sv_pc = "writing"
  /\ disk' = WritePrimary(disk, cache)
  /\ sv_pc' = "done"
  /\ sv_result' = "Ok"
  /\ UNCHANGED <<cache, sv_before, loaded>>
  /\ UNCHANGED <<aiVars, linkVars, runVars, utilVars, loopVars>>

\* the caller goes on after save returned
SaveReturn ==
  /\ sv_pc = "done"
  /\ sv_pc' = "idle"
  /\ loaded' = NoLoad
  /\ UNCHANGED <<disk, cache, sv_result, sv_before>>
  /\ UNCHANGED <<aiVars, linkVars, runVars, utilVars, loopVars>>

\* the process is killed in the middle of a save
Crash ==
  /\ sv_pc \in {"copied", "writing"}
  /\ sv_pc' = "crashed"
  /\ UNCHANGED <<disk, cache, sv_result, sv_before, loaded>>
  /\ UNCHANGED <<aiVars, linkVars, runVars, utilVars, loopVars>>

\* the next process starts from Cache::load
Restart ==
  /\ sv_pc = "crashed"
  /\ loaded' = Cache_load(disk) @@ [at |-> "restart"]
  /\ IF Cache_load(disk).status = "Ok"
     THEN cache' = Cache_load(disk).cache /\ sv_pc' = "idle"
     ELSE UNCHANGED <<cache, sv_pc>>
  /\ UNCHANGED <<disk, sv_result, sv_before>>
  /\ UNCHANGED <<aiVars, linkVars, runVars, utilVars, loopVars>>

\* Cache::load by a reader, at any moment
Load ==
  /\ sv_pc \in {"idle", "copied", "writing", "done"}
  /\ loaded' = Cache_load(disk) @@ [at |-> sv_pc]
  /\ UNCHANGED <<disk, cache, sv_pc, sv_result, sv_before>>
  /\ UNCHANGED <<aiVars, linkVars, runVars, utilVars, loopVars>>

NextCache ==
  \/ AddPaperEntry \/ AddFailedEntry \/ AddAuthorEntry
  \/ SaveCopy \/ SaveTruncate \/ SaveWrite \/ SaveReturn
  \/ Crash \/ Restart \/ Load


SpecCache == InitCache /\ [][NextCache]_vars

(***************************************************************************)
(* SpecLink: one call of update_from_arxiv or update_from_ss.              *)
(***************************************************************************)
\* titles of ThresholdTenths and of MaxTitleLen code points
LinkTitles ==
  { Rep(1, ThresholdTenths),
    Rep(1, ThresholdTenths - 1) \o <<2>>,
    <<3>> \o Rep(1, ThresholdTenths - 1),
    Rep(1, MaxTitleLen),
    Rep(1, MaxTitleLen - 1) \o <<2>>,
    Rep(1, MaxTitleLen - 1) \o <<5>>,
    <<2, 2>>,
    <<>> }

ArxivEntry(t) ==
  [id |-> "arxiv:" \o ToString(t), title |-> t, abstract_text |-> "abstract (arxiv)",
   primary_category |-> "cs.CL", categories |-> <<"cs.CL", "cs.AI">>,
   pdf_url |-> "http://arxiv.org/pdf/x", doi |-> "10.1/x"]

SsAuthor(id) == [author_id |-> id, name |-> "name of " \o id]

SsNested == [paper_id |-> Null, title |-> <<1, 5, 2>>, abstract_text |-> Null,
             authors |-> <<SsAuthor("au1")>>, publication_date |-> Null]

SsEntry(t, abs, authors) ==
  [paper_id |-> "ss:" \o ToString(t), title |-> t, abstract_text |-> abs,
   url |-> "http://ss.org/x", venue |-> "NeurIPS", publication_date |-> "2017-06-12",
   reference_count |-> 3, citation_count |-> 7, influential_citation_count |-> 1,
   authors |-> authors, citations |-> <<SsNested>>, references |-> <<>>]

LinkArxivEntries == {ArxivEntry(t) : t \in LinkTitles}

LinkSsEntries ==
  {SsEntry(t, "abstract (ss)", <<SsAuthor("au1"), SsAuthor(Null)>>) : t \in LinkTitles}
  \cup {SsEntry(Rep(1, MaxTitleLen), Null, <<>>)}

\* the sequences of at most n elements of S
RECURSIVE SeqsUpTo(_, _)
SeqsUpTo(S, n) ==
  IF n = 0 THEN {<<>>}
  ELSE LET shorter == SeqsUpTo(S, n - 1)
       IN shorter \cup {Append(q, x) : q \in shorter, x \in S}

\* the papers the caller holds: fresh from Paper::default(), or with fields set
LinkPapers ==
  UNION { { [DefaultPaper EXCEPT !.title = t],
            [DefaultPaper EXCEPT !.title = t, !.arxiv_id = "arxiv:old",
               !.abstract_text = "abstract (old)", !.url = "http://old", !.journal = "arXiv",
               !.publisher = "arXiv", !.citation_count = 1,
               !.authors = <<[page_id |-> "", ss_id |-> "au9", name |-> "old author"]>>,
               !.publication_date = "2024-01-01"] } : t \in LinkTitles }

InitLink ==
  /\ lk_pc = "ready"
  /\ lk_paper \in LinkPapers
  /\ lk_before = lk_paper
  /\ lk_call = NoCall
  /\ lk_result = ""
  /\ lk_sel = NoSel
  /\ AiIdle /\ FsIdle /\ RunIdle /\ UtilIdle /\ LoopIdle

LinkFromArxiv ==
  /\ lk_pc = "ready"
  /\ \E overwrite \in BOOLEAN, results \in SeqsUpTo(LinkArxivEntries, MaxResults) :
       \E out \in {update_from_arxiv(lk_paper, overwrite, results)} :
          /\ lk_call' = [source |-> "arxiv", overwrite |-> overwrite,
                         response |-> [ok |-> TRUE, results |-> results]]
          /\ lk_paper' = out.paper
          /\ lk_result' = out.result
          /\ lk_sel' = out.sel
  /\ lk_pc' = "done"
  /\ UNCHANGED lk_before
  /\ UNCHANGED <<aiVars, fsVars, runVars, utilVars, loopVars>>

LinkFromSs ==
  /\ lk_pc = "ready"
  /\ \E overwrite \in BOOLEAN,
        response \in {[ok |-> FALSE, results |-> <<>>]}
                     \cup {[ok |-> TRUE, results |-> r] : r \in SeqsUpTo(LinkSsEntries, MaxResults)} :
       \E out \in {update_from_ss(lk_paper, overwrite, response)} :
          /\ lk_call' = [source |-> "ss", overwrite |-> overwrite, response |-> response]
          /\ lk_paper' = out.paper
          /\ lk_result' = out.result
          /\ lk_sel' = out.sel
  /\ lk_pc' = "done"
  /\ UNCHANGED lk_before
  /\ UNCHANGED <<aiVars, fsVars, runVars, utilVars, loopVars>>

NextLink == LinkFromArxiv \/ LinkFromSs

SpecLink == InitLink /\ [][NextLink]_vars

(***************************************************************************)
(* Spec: runs of the two commands of main.rs, one after the other, over    *)
(* one cache directory and one destination store.                          *)
(***************************************************************************)
\* the titles of the runs: ten 'a', the same with a last 'b' (one edit away,
\* similarity above 0.9), the same with a capital first letter, and "bb"
TitleA == Rep(1, MaxTitleLen)

TitleB == Rep(1, MaxTitleLen - 1) \o <<2>>

TitleUpper == <<3>> \o Rep(1, MaxTitleLen - 1)

TitleOther == <<2, 2>>

RawTitles == {TitleA, TitleUpper}

\* what the sources answer: an error (Semantic Scholar only), no result, one
\* result, or a dissimilar result followed by a similar one
SsEntryA == SsEntry(TitleA, "abstract (ss)", <<SsAuthor("au1"), SsAuthor("au2")>>)

SsEntryB == SsEntry(TitleB, "abstract (ss)", <<SsAuthor("au1")>>)

SsEntryOther == SsEntry(TitleOther, "abstract (ss)", <<>>)

RunSsResponses ==
  {[ok |-> FALSE, results |-> <<>>]}
  \cup {[ok |-> TRUE, results |-> r] :
          r \in {<<>>, <<SsEntryA>>, <<SsEntryB>>, <<SsEntryOther>>, <<SsEntryOther, SsEntryB>>}}

RunArxivResponses ==
  {<<>>, <<ArxivEntry(TitleA)>>, <<ArxivEntry(TitleOther)>>,
   <<ArxivEntry(TitleOther), ArxivEntry(TitleA)>>}

\* collect_papers_from_arxiv, the closure of its map
from_arxiv_entry(entry) ==
  [DefaultPaper EXCEPT !.arxiv_id = entry.id, !.title = replace_newline(entry.title),
                       !.abstract_text = entry.abstract_text,
                       !.arxiv_primary_category = entry.primary_category,
                       !.arxiv_categories = entry.categories, !.url = entry.pdf_url,
                       !.doi = entry.doi, !.journal = "arXiv", !.publisher = "arXiv"]

\* the batches of a day: at most MaxBatch entries
Batches ==
  {[i \in 1..Len(q) |-> from_arxiv_entry(ArxivEntry(q[i]))] : q \in SeqsUpTo(RawTitles, MaxBatch)}

\* what rsrpp's parse can give: an error, or that many sections
TextOutcomes == {[ok |-> FALSE, sections |-> 0], [ok |-> TRUE, sections |-> 0],
                 [ok |-> TRUE, sections |-> 3], [ok |-> TRUE, sections |-> 4]}

MinSections == 4

\* whether the item fails on the text step
TextFails(text, batch) == ~text.ok \/ (batch /\ text.sections < MinSections)

\* the outcomes of the chat calls of one summarize, in order
ChatErr == [kind |-> "err", payload |-> NotJson]

ChatOk(p) == [kind |-> "ok", payload |-> p]

SummarizeScripts ==
  { <<ChatOk(JsonObject(MkSummary(TRUE, "s1")))>>,
    <<ChatErr, ChatErr, ChatErr, ChatErr, ChatOk(JsonObject(MkSummary(TRUE, "s1")))>>,
    <<ChatErr, ChatErr, ChatErr, ChatErr, ChatErr>>,
    <<ChatErr, ChatOk(NotJson)>>,
    <<[kind |-> "nochoice", payload |-> NotJson]>> }

AuthorOutcomes == [1..2 -> BOOLEAN]

InitialRunDisks ==
  {EmptyDisk, [dir |-> TRUE, primary |-> DocFile(Serialize(NewCache)), backup |-> NoFile]}

Init ==
  /\ pc = "idle"
  /\ mode = ""
  /\ todo = <<>>
  /\ paper = DefaultPaper
  /\ pdf = FALSE
  /\ runs = 0
  /\ faults = 0
  /\ store = EmptyStore
  /\ panic = ""
  /\ last_link = NoLink
  /\ item_log = <<>>
  /\ disk \in InitialRunDisks
  /\ cache = NewCache
  /\ SaveIdle
  /\ AiIdle /\ LinkIdle /\ UtilIdle /\ LoopIdle

LogEntry(title, outcome, reason) == [title |-> title, outcome |-> outcome, reason |-> reason]

\* the process ends (a return of the command, or a panic that unwinds it):
\* what it held in memory is gone
EndRun(message) ==
  /\ pc' = "idle"
  /\ panic' = message
  /\ todo' = <<>>
  /\ paper' = DefaultPaper
  /\ cache' = NewCache

\* post_arxiv_papers: the item failed, its reason goes to failed_papers
FailItem(c, p, reason) ==
  /\ cache' = push_failed(c, from_paper(p, reason))
  /\ item_log' = Append(item_log, LogEntry(p.title, "Failed", reason))
  /\ paper' = DefaultPaper
  /\ pc' = "next"

\* post_a_new_paper up to the first link call
StartSingle ==
  /\ pc = "idle"
  /\ runs < MaxRuns
  /\ runs' = runs + 1
  /\ mode' = "single"
  /\ panic' = ""
  /\ item_log' = <<>>
  /\ last_link' = NoLink
  /\ todo' = <<>>
  /\ \E title \in RawTitles, given \in BOOLEAN, ld \in {Cache_load(disk)} :
       /\ pdf' = given
       /\ IF ld.status = "Ok"
          THEN /\ cache' = ld.cache
               /\ paper' = [DefaultPaper EXCEPT !.title = title]
               /\ pc' = "link_ss"
          ELSE /\ cache' = NewCache
               /\ paper' = DefaultPaper
               /\ pc' = "idle"
  /\ faults' = 0
  /\ UNCHANGED <<disk, store, saveVars, aiVars, linkVars, utilVars, loopVars>>

\* post_arxiv_papers up to the loop
StartBatch ==
  /\ pc = "idle"
  /\ runs < MaxRuns
  /\ runs' = runs + 1
  /\ mode' = "batch"
  /\ panic' = ""
  /\ item_log' = <<>>
  /\ last_link' = NoLink
  /\ pdf' = FALSE
  /\ paper' = DefaultPaper
  /\ \E papers \in Batches, ld \in {Cache_load(disk)} :
       IF ld.status = "Ok"
       THEN /\ cache' = ld.cache
            /\ todo' = papers
            /\ pc' = "next"
       ELSE /\ cache' = NewCache
            /\ todo' = <<>>
            /\ pc' = "idle"
  /\ faults' = 0
  /\ UNCHANGED <<disk, store, saveVars, aiVars, linkVars, utilVars, loopVars>>

\* post_arxiv_papers: the head of the loop with its dedup check, or its end
BatchNext ==
  /\ pc = "next"
  /\ IF todo = <<>>
     THEN /\ pc' = "finish"
          /\ UNCHANGED <<todo, paper, item_log>>
     ELSE /\ todo' = Tail(todo)
          /\ IF is_exist_paper(cache, Head(todo).title)
             THEN /\ item_log' = Append(item_log, LogEntry(Head(todo).title, "Skipped", ""))
                  /\ paper' = DefaultPaper
                  /\ pc' = "next"
             ELSE /\ paper' = Head(todo)
                  /\ pc' = "link_ss"
                  /\ UNCHANGED item_log
  /\ UNCHANGED <<mode, pdf, runs, faults, store, panic, last_link>>
  /\ UNCHANGED <<fsVars, aiVars, linkVars, utilVars, loopVars>>

\* the call of update_from_ss and the caller's match on its result
LinkSs ==
  /\ pc = "link_ss"
  /\ \E response \in RunSsResponses :
       \E out \in {update_from_ss(paper, mode = "single", response)} :
          /\ out.result = "Err" => faults < MaxFaults
          /\ faults' = IF out.result = "Err" THEN faults + 1 ELSE faults
          /\ last_link' = [source |-> "ss", result |-> out.result,
                           candidates |-> Len(response.results),
                           accepted |-> out.sel.accepted]
          /\ IF out.result = "Panic"
             THEN /\ EndRun("update_from_ss")
                  /\ UNCHANGED item_log
             ELSE IF out.result = "Err" /\ mode = "batch"
             THEN /\ FailItem(cache, paper, "Failed to get metadata from SS")
                  /\ UNCHANGED <<todo, panic>>
             ELSE /\ paper' = out.paper
                  /\ pc' = IF mode = "single" THEN "link_arxiv" ELSE "text"
                  /\ UNCHANGED <<todo, panic, cache, item_log>>
  /\ UNCHANGED <<mode, pdf, runs, store>>
  /\ UNCHANGED <<disk, saveVars, aiVars, linkVars, utilVars, loopVars>>

\* post_a_new_paper: the call of update_from_arxiv
LinkArxiv ==
  /\ pc = "link_arxiv"
  /\ \E results \in RunArxivResponses :
       \E out \in {update_from_arxiv(paper, TRUE, results)} :
          /\ last_link' = [source |-> "arxiv", result |-> out.result,
                           candidates |-> Len(results), accepted |-> out.sel.accepted]
          /\ IF out.result = "Panic"
             THEN EndRun("update_from_arxiv")
             ELSE /\ paper' = out.paper
                  /\ pc' = "dedup"
                  /\ UNCHANGED <<todo, panic, cache>>
  /\ UNCHANGED <<mode, pdf, runs, faults, store, item_log>>
  /\ UNCHANGED <<disk, saveVars, aiVars, linkVars, utilVars, loopVars>>

\* post_a_new_paper: "Check if the paper already exists"
DedupCheck ==
  /\ pc = "dedup"
  /\ IF is_exist_paper(cache, paper.title)
     THEN /\ item_log' = Append(item_log, LogEntry(paper.title, "Skipped", ""))
          /\ EndRun("")
     ELSE /\ pc' = "text"
          /\ UNCHANGED <<item_log, panic, todo, paper, cache>>
  /\ UNCHANGED <<mode, pdf, runs, faults, store, last_link>>
  /\ UNCHANGED <<disk, saveVars, aiVars, linkVars, utilVars, loopVars>>

\* get_original_text, the length check of post_arxiv_papers, get_keywords
GetText ==
  /\ pc = "text"
  /\ \E text \in TextOutcomes :
       /\ TextFails(text, mode = "batch") => faults < MaxFaults
       /\ faults' = IF TextFails(text, mode = "batch") THEN faults + 1 ELSE faults
       /\ IF ~pdf /\ paper.url = ""
          THEN /\ EndRun("get_original_text")
               /\ UNCHANGED item_log
          ELSE IF ~text.ok
          THEN IF mode = "batch"
               THEN /\ FailItem(cache, paper, "Failed to get original text")
                    /\ UNCHANGED <<todo, panic>>
               ELSE /\ item_log' = Append(item_log, LogEntry(paper.title, "Failed",
                                                             "Failed to get original text"))
                    /\ EndRun("")
          ELSE IF TextFails(text, mode = "batch")
          THEN /\ FailItem(cache, [paper EXCEPT !.original_text_len = text.sections,
                                                !.original_text_map_len = text.sections],
                           "The paper is too short")
               /\ UNCHANGED <<todo, panic>>
          ELSE /\ paper' = [paper EXCEPT !.original_text_len = text.sections,
                                         !.original_text_map_len = text.sections,
                                         !.keywords = <<"keyword">>]
               /\ pc' = "summarize"
               /\ UNCHANGED <<todo, panic, cache, item_log>>
  /\ UNCHANGED <<mode, pdf, runs, store, last_link>>
  /\ UNCHANGED <<disk, saveVars, aiVars, linkVars, utilVars, loopVars>>

\* the call of ai.summarize and the caller's match on its result
Summarize ==
  /\ pc = "summarize"
  /\ \E script \in SummarizeScripts :
       \E out \in {summarize(paper, script)} :
          /\ out.result \in {"Err", "ErrDecode"} => faults < MaxFaults
          /\ faults' = IF out.result \in {"Err", "ErrDecode"} THEN faults + 1 ELSE faults
          /\ IF out.result = "Panic"
             THEN /\ EndRun("summarize")
                  /\ UNCHANGED item_log
             ELSE IF out.result # "Ok" /\ mode = "batch"
             THEN /\ FailItem(cache, paper, "Failed to summarize the paper")
                  /\ UNCHANGED <<todo, panic>>
             ELSE /\ paper' = [paper EXCEPT !.summary = out.summary]
                  /\ pc' = "authors"
                  /\ UNCHANGED <<todo, panic, cache, item_log>>
  /\ UNCHANGED <<mode, pdf, runs, store, last_link>>
  /\ UNCHANGED <<disk, saveVars, aiVars, linkVars, utilVars, loopVars>>

\* the call of reporter.add_authors and the caller's match on its result
AddAuthors ==
  /\ pc = "authors"
  /\ \E outcomes \in AuthorOutcomes :
       \E out \in {add_authors(paper.authors, cache, disk, store, outcomes)} :
          /\ out.status = "Failure" => faults < MaxFaults
          /\ faults' = IF out.status = "Failure" THEN faults + 1 ELSE faults
          /\ disk' = out.disk
          /\ store' = out.store
          /\ IF out.status = "Err" /\ mode = "batch"
             THEN FailItem(out.cache, [paper EXCEPT !.authors = out.authors],
                           "Failed to add authors")
             ELSE /\ cache' = out.cache
                  /\ paper' = [paper EXCEPT !.authors = out.authors]
                  /\ pc' = "report"
                  /\ UNCHANGED item_log
  /\ UNCHANGED <<mode, pdf, runs, todo, panic, last_link>>
  /\ UNCHANGED <<saveVars, aiVars, linkVars, utilVars, loopVars>>

\* the call of reporter.add_a_paper and the caller's match on its result
AddPaper ==
  /\ pc = "report"
  /\ \E created \in BOOLEAN, appended \in BOOLEAN :
       \E out \in {add_a_paper(paper, cache, disk, store, created, appended)} :
          /\ out.status = "Failure" => faults < MaxFaults
          /\ faults' = IF out.status = "Failure" THEN faults + 1 ELSE faults
          /\ IF out.status = "Panic"
             THEN /\ EndRun("add_a_paper")
                  /\ UNCHANGED <<disk, store, item_log>>
             ELSE /\ disk' = out.disk
                  /\ store' = out.store
                  /\ UNCHANGED <<todo, panic>>
                  /\ IF out.status \in {"Success", "PaperAlreadyExists"}
                     THEN /\ cache' = out.cache
                          /\ item_log' = Append(item_log, LogEntry(out.paper.title, out.status, ""))
                          /\ paper' = IF mode = "batch" THEN DefaultPaper ELSE out.paper
                          /\ pc' = IF mode = "batch" THEN "next" ELSE "finish"
                     ELSE IF mode = "batch"
                     THEN FailItem(out.cache, out.paper, "Failed to report the paper")
                     ELSE /\ cache' = out.cache
                          /\ item_log' = Append(item_log, LogEntry(out.paper.title, "Failed",
                                                                   "Failed to report the paper"))
                          /\ paper' = out.paper
                          /\ pc' = "finish"
  /\ UNCHANGED <<mode, pdf, runs, last_link>>
  /\ UNCHANGED <<saveVars, aiVars, linkVars, utilVars, loopVars>>

\* cache.save().unwrap() at the end of either command
Finish ==
  /\ pc = "finish"
  /\ \E sv \in {Cache_save(cache, disk)} :
       /\ disk' = sv.disk
       /\ EndRun(IF sv.result = "Ok" THEN "" ELSE "cache.save")
  /\ UNCHANGED <<mode, pdf, runs, faults, store, last_link, item_log>>
  /\ UNCHANGED <<saveVars, aiVars, linkVars, utilVars, loopVars>>

Next ==
  \/ StartSingle
  \/ StartBatch
  \/ BatchNext
  \/ LinkSs
  \/ LinkArxiv
  \/ DedupCheck
  \/ GetText
  \/ Summarize
  \/ AddAuthors
  \/ AddPaper
  \/ Finish

Spec == Init /\ [][Next]_vars

(***************************************************************************)
(* SpecUtil: one call of a function of utils.rs or of a list view of       *)
(* Summary, on arguments drawn from bounded sets.                          *)
(***************************************************************************)
\* "kitten", "sitting", "flaw", "lawn" and "nlp,cv" as code points
Kitten == <<107, 105, 116, 116, 101, 110>>

Sitting == <<115, 105, 116, 116, 105, 110, 103>>

Flaw == <<102, 108, 97, 119>>

Lawn == <<108, 97, 119, 110>>

NlpCv == <<110, 108, 112, 44, 99, 118>>

\* the strings the distance functions are called with
DistStrings == SeqsUpTo({1, 2}, MaxStrLen) \cup {Kitten, Sitting, Flaw, Lawn}

\* the values of task_as_words and domain_as_words
FieldStrings == SeqsUpTo({1, Comma, IdeographicComma}, MaxStrLen) \cup {NlpCv}

UtilCalls ==
  { [fn |-> f, a |-> a, b |-> b] :
      f \in {"levenshtein_dist", "levenshtein_dist_normalized", "levenshtein_similarity"},
      a \in DistStrings, b \in DistStrings }
  \cup { [fn |-> f, a |-> w, b |-> <<>>] :
           f \in {"task_as_vec", "domain_as_vec"}, w \in FieldStrings }

\* the author lists add_a_paper builds the relation from: n authors with
\* ids of their own, around the cap and well above it
RelationLengths == {0, 1, 2, RelationCap - 1, RelationCap, RelationCap + 1, 2 * RelationCap}

RelationAuthors(n) == [i \in 1..n |-> from_ss_author(SsAuthor("au" \o ToString(i)))]

\* the ledgers it reads: every author of the list added, two authors of
\* three added, or none
RelationLedger(authors, every) ==
  LET added == SelectSeq([i \in 1..Len(authors) |-> i], LAMBDA i : every = 1 \/ i % every # 0)
  IN [NewCache EXCEPT
        !.authors = [k \in 1..Len(added) |->
                       [name |-> authors[added[k]].name, ss_id |-> authors[added[k]].ss_id,
                        page_id |-> AuthorPageId(added[k])]],
        !.author_map = [id \in {authors[added[k]].ss_id : k \in 1..Len(added)} |->
                          AuthorPageId(CHOOSE i \in 1..Len(authors) : authors[i].ss_id = id)]]

RelationCalls ==
  { [fn |-> "author_ids", a |-> RelationAuthors(n),
     b |-> IF every = 0 THEN NewCache ELSE RelationLedger(RelationAuthors(n), every)] :
      n \in RelationLengths, every \in {0, 1, 3} }

InitUtil ==
  /\ u_pc = "ready"
  /\ (u_call \in UtilCalls \/ u_call \in RelationCalls)
  /\ u_out = <<>>
  /\ AiIdle /\ LinkIdle /\ FsIdle /\ RunIdle /\ LoopIdle

\* levenshtein_dist(a, b) returns
UtilDist ==
  /\ u_pc = "ready"
  /\ u_call.fn = "levenshtein_dist"
  /\ u_pc' = "done"
  /\ u_out' = levenshtein_dist(u_call.a, u_call.b)
  /\ UNCHANGED u_call
  /\ UNCHANGED <<aiVars, linkVars, fsVars, runVars, loopVars>>

\* levenshtein_dist_normalized(a, b) returns
UtilNormalized ==
  /\ u_pc = "ready"
  /\ u_call.fn = "levenshtein_dist_normalized"
  /\ u_pc' = "done"
  /\ u_out' = levenshtein_dist_normalized(u_call.a, u_call.b)
  /\ UNCHANGED u_call
  /\ UNCHANGED <<aiVars, linkVars, fsVars, runVars, loopVars>>

\* levenshtein_similarity(a, b) returns
UtilSimilarity ==
  /\ u_pc = "ready"
  /\ u_call.fn = "levenshtein_similarity"
  /\ u_pc' = "done"
  /\ u_out' = levenshtein_similarity(u_call.a, u_call.b)
  /\ UNCHANGED u_call
  /\ UNCHANGED <<aiVars, linkVars, fsVars, runVars, loopVars>>

\* summary.task_as_vec() returns, task_as_words being a
UtilTaskAsVec ==
  /\ u_pc = "ready"
  /\ u_call.fn = "task_as_vec"
  /\ u_pc' = "done"
  /\ u_out' = task_as_vec(u_call.a)
  /\ UNCHANGED u_call
  /\ UNCHANGED <<aiVars, linkVars, fsVars, runVars, loopVars>>

\* summary.domain_as_vec() returns, domain_as_words being a
UtilDomainAsVec ==
  /\ u_pc = "ready"
  /\ u_call.fn = "domain_as_vec"
  /\ u_pc' = "done"
  /\ u_out' = domain_as_vec(u_call.a)
  /\ UNCHANGED u_call
  /\ UNCHANGED <<aiVars, linkVars, fsVars, runVars, loopVars>>

\* add_a_paper, lines 396-411: the author relation of the page, the paper's
\* authors being a and the ledger b
UtilAuthorIds ==
  /\ u_pc = "ready"
  /\ u_call.fn = "author_ids"
  /\ u_pc' = "done"
  /\ u_out' = AuthorIds([DefaultPaper EXCEPT !.authors = u_call.a], u_call.b)
  /\ UNCHANGED u_call
  /\ UNCHANGED <<aiVars, linkVars, fsVars, runVars, loopVars>>

NextUtil ==
  \/ UtilDist \/ UtilNormalized \/ UtilSimilarity
  \/ UtilTaskAsVec \/ UtilDomainAsVec \/ UtilAuthorIds

SpecUtil == InitUtil /\ [][NextUtil]_vars

(***************************************************************************)
(* SpecLedger: the ledger in memory, from Cache::new or Cache::build,      *)
(* through add_author and add_paper calls, up to one query.                *)
(***************************************************************************)
\* bound on the entries of the ledger
MaxLedger == 3

\* what the store lists when the ledger is built
BuiltPaperPages == SeqsUpTo(PaperEntries, 1)

BuiltAuthorPages == SeqsUpTo(AuthorEntries, 2)

\* the titles and the author ids the ledger is asked about
QueryTitles == {<<1>>, <<3>>, <<2>>, <<1, 1>>}

QueryIds == {"a1", "a2", "a3"}

InitLedger ==
  /\ \/ /\ disk = EmptyDisk
        /\ cache = NewCache
     \/ \E papers \in BuiltPaperPages, authors \in BuiltAuthorPages :
          \E built \in {Cache_build(papers, authors,
                                    [dir |-> TRUE, primary |-> DocFile(Serialize(NewCache)),
                                     backup |-> NoFile])} :
             /\ built.status = "Ok"
             /\ disk = built.disk
             /\ cache = built.cache
  /\ SaveIdle
  /\ u_pc = "ready"
  /\ u_call = NoUtilCall
  /\ u_out = <<>>
  /\ AiIdle /\ LinkIdle /\ RunIdle /\ LoopIdle

\* cache.add_author(author)
LedgerAddAuthor ==
  /\ u_pc = "ready"
  /\ Len(cache.authors) + Len(cache.papers) < MaxLedger
  /\ \E a \in AuthorEntries : cache' = add_author(cache, a)
  /\ UNCHANGED <<disk, saveVars, utilVars, loopVars>>
  /\ UNCHANGED <<aiVars, linkVars, runVars, loopVars>>

\* cache.add_paper(paper)
LedgerAddPaper ==
  /\ u_pc = "ready"
  /\ Len(cache.authors) + Len(cache.papers) < MaxLedger
  /\ \E e \in PaperEntries : cache' = add_paper(cache, e)
  /\ UNCHANGED <<disk, saveVars, utilVars, loopVars>>
  /\ UNCHANGED <<aiVars, linkVars, runVars, loopVars>>

\* cache.is_exist_paper(title) returns; the ledger is borrowed as &self
LedgerIsExistPaper ==
  /\ u_pc = "ready"
  /\ \E title \in QueryTitles :
       /\ u_call' = [fn |-> "is_exist_paper", a |-> title, b |-> <<>>]
       /\ u_out' = is_exist_paper(cache, title)
  /\ u_pc' = "done"
  /\ UNCHANGED fsVars
  /\ UNCHANGED <<aiVars, linkVars, runVars, loopVars>>

\* cache.is_exist_author(ss_id) returns
LedgerIsExistAuthor ==
  /\ u_pc = "ready"
  /\ \E id \in QueryIds :
       /\ u_call' = [fn |-> "is_exist_author", a |-> id, b |-> <<>>]
       /\ u_out' = is_exist_author(cache, id)
  /\ u_pc' = "done"
  /\ UNCHANGED fsVars
  /\ UNCHANGED <<aiVars, linkVars, runVars, loopVars>>

\* cache.get_author_id(ss_id) returns
LedgerGetAuthorId ==
  /\ u_pc = "ready"
  /\ \E id \in QueryIds :
       /\ u_call' = [fn |-> "get_author_id", a |-> id, b |-> <<>>]
       /\ u_out' = get_author_id(cache, id)
  /\ u_pc' = "done"
  /\ UNCHANGED fsVars
  /\ UNCHANGED <<aiVars, linkVars, runVars, loopVars>>

NextLedger ==
  \/ LedgerAddAuthor \/ LedgerAddPaper
  \/ LedgerIsExistPaper \/ LedgerIsExistAuthor \/ LedgerGetAuthorId

SpecLedger == InitLedger /\ [][NextLedger]_vars

(***************************************************************************)
(* SpecAuthors: one call of Reporter::add_authors, author by author.       *)
(***************************************************************************)
\* bound on the length of the author list
MaxAuthors == 3

\* the author lists of the paper: ids may repeat
AuthorLists ==
  { [i \in 1..Len(q) |-> from_ss_author(SsAuthor(q[i]))] :
      q \in SeqsUpTo({"au1", "au2"}, MaxAuthors) }

\* the ledger and the store the call starts with: nothing yet, or the first
\* author added by an earlier call
AuthorsStarts ==
  { [cache |-> NewCache, store |-> EmptyStore],
    [cache |-> add_author(NewCache, [name |-> "name of au1", ss_id |-> "au1",
                                     page_id |-> AuthorPageId(1)]),
     store |-> [EmptyStore EXCEPT !.authors = <<"au1">>]] }

InitAuthors ==
  /\ \E start \in AuthorsStarts, saved \in BOOLEAN :
       /\ cache = start.cache
       /\ store = start.store
       /\ disk = IF saved
                 THEN [dir |-> TRUE, primary |-> DocFile(Serialize(start.cache)),
                       backup |-> NoFile]
                 ELSE EmptyDisk
  /\ \E authors \in AuthorLists : paper = [DefaultPaper EXCEPT !.authors = authors]
  /\ lp_pc = "loop"
  /\ lp_i = 1
  /\ lp_more = FALSE
  /\ lp_tick = 0
  /\ lp_result = ""
  /\ pc = "idle" /\ mode = "" /\ todo = <<>> /\ pdf = FALSE /\ runs = 0 /\ faults = 0
  /\ panic = "" /\ last_link = NoLink /\ item_log = <<>>
  /\ SaveIdle
  /\ AiIdle /\ LinkIdle /\ UtilIdle

\* the body of the for loop for the author in turn
AuthorsStep ==
  /\ lp_pc = "loop"
  /\ lp_i <= Len(paper.authors)
  /\ \E created \in BOOLEAN :
       \E r \in {add_authors_step([status |-> "", authors |-> paper.authors, cache |-> cache,
                                   disk |-> disk, store |-> store], lp_i, created)} :
          /\ paper' = [paper EXCEPT !.authors = r.authors]
          /\ cache' = r.cache
          /\ disk' = r.disk
          /\ store' = r.store
          /\ IF r.status = ""
             THEN /\ lp_i' = lp_i + 1
                  /\ UNCHANGED <<lp_pc, lp_result>>
             ELSE /\ lp_pc' = "done"
                  /\ lp_result' = r.status
                  /\ UNCHANGED lp_i
  /\ UNCHANGED <<lp_more, lp_tick>>
  /\ UNCHANGED <<pc, mode, todo, pdf, runs, faults, panic, last_link, item_log>>
  /\ UNCHANGED <<saveVars, aiVars, linkVars, utilVars>>

\* the loop is over: return Ok(StatusCode::Success)
AuthorsReturn ==
  /\ lp_pc = "loop"
  /\ lp_i > Len(paper.authors)
  /\ lp_pc' = "done"
  /\ lp_result' = "Success"
  /\ UNCHANGED <<lp_i, lp_more, lp_tick>>
  /\ UNCHANGED <<fsVars, runVars, aiVars, linkVars, utilVars>>

NextAuthors == AuthorsStep \/ AuthorsReturn

SpecAuthors == InitAuthors /\ [][NextAuthors]_vars

(***************************************************************************)
(* SpecBuild: one call of Cache::build, query by query.                    *)
(***************************************************************************)
\* bounds on the pages in a database of the store and on the pages one
\* query returns
MaxPages == 2
PageSize == 1

\* query_database answered with Ok for the start cursor `cursor` (the number
\* of pages already listed, 0 for the empty cursor): the next pages, has_more
\* and next_cursor, None read as the empty cursor
QueryResponse(pages, cursor) ==
  LET last == IF cursor + PageSize < Len(pages) THEN cursor + PageSize ELSE Len(pages)
  IN [results |-> SubSeq(pages, cursor + 1, last),
      has_more |-> last < Len(pages),
      next_cursor |-> IF last < Len(pages) THEN last ELSE 0]

InitBuild ==
  /\ \E papers \in SeqsUpTo(PaperEntries, MaxPages), authors \in SeqsUpTo(AuthorEntries, MaxPages) :
       store = [papers |-> papers, authors |-> authors]
  /\ \/ disk = EmptyDisk
     \/ disk = [dir |-> TRUE, primary |-> DocFile(Serialize(NewCache)), backup |-> NoFile]
  /\ cache = NewCache
  /\ lp_pc = "papers"
  /\ lp_i = 0
  /\ lp_more = TRUE
  /\ lp_tick = 0
  /\ lp_result = ""
  /\ pc = "idle" /\ mode = "" /\ todo = <<>> /\ pdf = FALSE /\ runs = 0 /\ faults = 0
  /\ panic = "" /\ last_link = NoLink /\ item_log = <<>> /\ paper = DefaultPaper
  /\ SaveIdle
  /\ AiIdle /\ LinkIdle /\ UtilIdle

\* lines 115-140, the Ok arm: the pages of the response join the paper list
BuildLoadPapers ==
  /\ lp_pc = "papers"
  /\ lp_more
  /\ \E response \in {QueryResponse(store.papers, lp_i)} :
       /\ lp_more' = response.has_more
       /\ lp_i' = response.next_cursor
       /\ cache' = [cache EXCEPT !.papers =
                      cache.papers \o [k \in 1..Len(response.results) |->
                                         [response.results[k] EXCEPT !.failed_reason = ""]]]
  /\ UNCHANGED <<lp_pc, lp_tick, lp_result>>
  /\ UNCHANGED <<disk, saveVars, runVars, aiVars, linkVars, utilVars>>

\* lines 118-124, the Err arm: a line is printed and the loop continues with
\* has_more and the cursor as they were
BuildLoadPapersFails ==
  /\ lp_pc = "papers"
  /\ lp_more
  /\ lp_tick' = 1 - lp_tick
  /\ UNCHANGED <<lp_pc, lp_i, lp_more, lp_result>>
  /\ UNCHANGED <<fsVars, runVars, aiVars, linkVars, utilVars>>

\* lines 141-158: the paper loop is over, the author loop starts with a new
\* filter
BuildPapersLoaded ==
  /\ lp_pc = "papers"
  /\ ~lp_more
  /\ lp_pc' = "authors"
  /\ lp_i' = 0
  /\ lp_more' = TRUE
  /\ UNCHANGED <<lp_tick, lp_result>>
  /\ UNCHANGED <<fsVars, runVars, aiVars, linkVars, utilVars>>

\* lines 159-184, the Ok arm
BuildLoadAuthors ==
  /\ lp_pc = "authors"
  /\ lp_more
  /\ \E response \in {QueryResponse(store.authors, lp_i)} :
       /\ lp_more' = response.has_more
       /\ lp_i' = response.next_cursor
       /\ cache' = [cache EXCEPT !.authors = cache.authors \o response.results]
  /\ UNCHANGED <<lp_pc, lp_tick, lp_result>>
  /\ UNCHANGED <<disk, saveVars, runVars, aiVars, linkVars, utilVars>>

\* lines 162-168, the Err arm
BuildLoadAuthorsFails ==
  /\ lp_pc = "authors"
  /\ lp_more
  /\ lp_tick' = 1 - lp_tick
  /\ UNCHANGED <<lp_pc, lp_i, lp_more, lp_result>>
  /\ UNCHANGED <<fsVars, runVars, aiVars, linkVars, utilVars>>

\* lines 185-201: the author map is collected, the cache is saved, build
\* returns
BuildReturn ==
  /\ lp_pc = "authors"
  /\ ~lp_more
  /\ \E c1 \in {[cache EXCEPT !.author_map = CollectAuthorMap(cache.authors, EmptyMap)]} :
       \E sv \in {Cache_save(c1, disk)} :
          /\ cache' = c1
          /\ disk' = sv.disk
          /\ lp_result' = sv.result
  /\ lp_pc' = "done"
  /\ UNCHANGED <<lp_i, lp_more, lp_tick>>
  /\ UNCHANGED <<saveVars, runVars, aiVars, linkVars, utilVars>>

NextBuild ==
  \/ BuildLoadPapers
  \/ BuildLoadPapersFails
  \/ BuildPapersLoaded
  \/ BuildLoadAuthors
  \/ BuildLoadAuthorsFails
  \/ BuildReturn

SpecBuild == InitBuild /\ [][NextBuild]_vars

\* build is sequential code that runs on: some step is always taken while one
\* is possible.  Which answer a query gets is the store's choice.
SpecBuildFair == SpecBuild /\ WF_vars(NextBuild)

(***************************************************************************)
(* Properties of the Resilient Extractor.                                  *)
(***************************************************************************)
AllFailed == \A i \in 1..Len(chat_log) : chat_log[i].outcome.kind = "err"

\* C1: against an endpoint whose chat call fails every time, summarize on a paper
\* with text stops after exactly 5 calls with an error: it never makes a sixth
\* call, and it never returns Ok.
C1_ExhaustsAfterFive ==
  /\ AllFailed => Len(chat_log) <= 5
  /\ (TextIsPresent(ai_paper) /\ AllFailed /\ ai_pc = "done")
        => (Len(chat_log) = 5 /\ ai_result = "Err")

C1_Witness == ai_pc = "done" /\ ai_result = "Err" /\ Len(chat_log) = 5 /\ AllFailed

\* C2: k failed calls (0 <= k <= 4) followed by a response whose payload decodes
\* make summarize return Ok on call k + 1 with paper.summary the decoded payload.
C2_SuccessAfterFailures ==
  \A n \in 1..Len(chat_log) :
     LET last == chat_log[n].outcome
     IN ( /\ \A i \in 1..(n - 1) : chat_log[i].outcome.kind = "err"
          /\ last.kind = "ok"
          /\ DecodeSummary(last.payload).ok )
        => /\ n <= 5
           /\ n = Len(chat_log)
           /\ ai_pc = "done"
           /\ ai_result = "Ok"
           /\ ai_paper.summary = DecodeSummary(last.payload).summary

C2_Witness ==
  /\ Len(chat_log) = 5
  /\ \A i \in 1..4 : chat_log[i].outcome.kind = "err"
  /\ chat_log[5].outcome.kind = "ok"
  /\ ai_result = "Ok"
  /\ ai_paper.summary = MkSummary(TRUE, "s1")

(***************************************************************************)

\* a chat call that succeeded with a content that does not decode into a Summary
Undecodable(outcome) == outcome.kind = "ok" /\ ~DecodeSummary(outcome.payload).ok

\* C19: a payload that does not decode ends summarize at once with the decode
\* error: it is the last chat call made, whatever attempts remain; the
\* conversation is as it was sent, without corrective turns; the attempt is
\* not counted, and the paper is as it was.
C19_DecodeFailureIsImmediate ==
  /\ [](\A n \in 1..Len(chat_log) :
           Undecodable(chat_log[n].outcome)
              => /\ n = Len(chat_log)
                 /\ ai_pc = "done"
                 /\ ai_result = "ErrDecode"
                 /\ messages = chat_log[n].messages)
  /\ [][(chat_log' # chat_log /\ Undecodable(chat_log'[Len(chat_log')].outcome))
           => (ai_paper' = ai_paper /\ retry_count' = retry_count)]_vars

C19_Witness ==
  /\ ai_result = "ErrDecode"
  /\ Len(chat_log) = 2
  /\ chat_log[1].outcome.kind = "err"
  /\ retry_count = 4

\* C20: summarize writes the paper only in the step that returns Ok: every
\* other step, and so every call that ends otherwise (no text, attempts
\* exhausted, decode failure), leaves every field of the paper as it was.
C20_PaperWrittenOnlyOnOk ==
  [][ai_result' # "Ok" => ai_paper' = ai_paper]_vars

C20_Witness ==
  /\ ai_pc = "done"
  /\ ai_result = "ErrDecode"
  /\ ai_paper.summary = MkSummary(FALSE, "old")

\* C21: summarize on a paper whose full text is empty returns an error value
\* to its caller (it neither succeeds nor unwinds the process) and makes no
\* chat call.
C21_EmptyTextReturnsAnError ==
  (ai_pc = "done" /\ ~TextIsPresent(ai_paper))
     => (ai_result \in {"Err", "ErrDecode"} /\ chat_log = <<>>)

\* C35: the conversation only grows.  The n-th chat call of a summarize
\* (n from 1 to 5) is made with the five initial messages followed by
\* 2 * (n - 1) corrective turns, a system turn then a user turn for each
\* earlier failure, and what an earlier call was made with is the leading
\* part of what every later call is made with.
C35_ConversationOnlyGrows ==
  /\ Len(chat_log) <= 5
  /\ \A n \in 1..Len(chat_log) :
       LET sent == chat_log[n].messages
       IN /\ Len(sent) = 5 + 2 * (n - 1)
          /\ SubSeq(sent, 1, 5) = get_messages(ai_paper)
          /\ \A k \in 1..(n - 1) :
               /\ sent[5 + 2 * k - 1].role = "system"
               /\ sent[5 + 2 * k].role = "user"
               /\ <<sent[5 + 2 * k - 1], sent[5 + 2 * k]>> = CorrectiveTurns
          /\ \A m \in 1..(n - 1) :
               SubSeq(sent, 1, Len(chat_log[m].messages)) = chat_log[m].messages

C35_Witness ==
  /\ Len(chat_log) = 5
  /\ Len(chat_log[5].messages) = 13
  /\ chat_log[4].outcome.kind = "err"

(***************************************************************************)
(* Properties of the Idempotency Ledger.                                   *)
(***************************************************************************)
\* C5: a save on a first run, when no primary file exists yet, returns Ok and
\* leaves the primary file written with the ledger.
C5_FirstSaveSucceeds ==
  (sv_pc = "done" /\ sv_before.primary.kind = "none")
     => (sv_result = "Ok" /\ disk.primary = DocFile(Serialize(cache)))

\* C6: at every point during and after a save, also after a crash and for a
\* reader that loads meanwhile, the primary file is absent or a complete
\* document, and the reader's load succeeds.
C6_NoPartialPrimary ==
  /\ disk.primary.kind \in {"none", "doc"}
  /\ loaded.at # "" => loaded.status = "Ok"

\* C7: a load that follows a save returns the ledger that was saved, equal in
\* every field but the path.
C7_SaveThenLoad ==
  loaded.at = "done"
     => /\ loaded.status = "Ok"
        /\ [loaded.cache EXCEPT !.path = cache.path] = cache

\* C8: a save that finds a primary file copies it to the backup before it
\* touches the primary; once it has returned Ok the backup holds what the
\* primary held before the save and the primary holds the serialization of the
\* ledger in memory.
C8_BackupThenOverwrite ==
  /\ (sv_pc \in {"copied", "writing"}) => disk.backup = sv_before.primary
  /\ (sv_pc = "done" /\ sv_before.primary.kind # "none") => sv_result = "Ok"
  /\ (sv_pc = "done" /\ sv_result = "Ok")
        => /\ sv_before.primary.kind = "doc"
           /\ disk.backup = sv_before.primary
           /\ disk.primary = DocFile(Serialize(cache))

C8_Witness ==
  /\ sv_pc = "done"
  /\ sv_result = "Ok"
  /\ Len(sv_before.primary.doc.papers) = 1
  /\ Len(cache.papers) = 2
  /\ disk.backup = sv_before.primary
  /\ disk.backup # disk.primary

(***************************************************************************)
(* Properties of the Record Linker.                                        *)
(***************************************************************************)
\* the candidate max_by chose in the call just made
ChosenTitle == lk_call.response.results[lk_sel.best].title

ChosenDistance == levenshtein_dist(to_lowercase(lk_before.title), to_lowercase(ChosenTitle))

LongerLength == Max2(Len(lk_before.title), Len(ChosenTitle))

\* C9: the candidate selected by update_from_arxiv / update_from_ss (titles not
\* both empty) is accepted exactly when 9 x edit distance <= length of the
\* longer title, so that a candidate at exactly 0.90 is accepted.
C9_AcceptedIffNineTenths ==
  (lk_pc = "done" /\ lk_sel.best # 0 /\ LongerLength > 0)
     => (lk_sel.accepted <=> ThresholdTenths * ChosenDistance <= LongerLength)

\* the scores of the call just made, in result order
LinkScores == Scores(lk_before.title, lk_call.response.results)

\* C11: of several candidates that share the maximum score the one selected is
\* the first in result order: after a successful link no candidate before the
\* selected one has its score.
C11_FirstOfEqualMaxima ==
  (lk_pc = "done" /\ lk_result = "Ok")
     => \E sc \in {LinkScores} :
           \A j \in 1..(lk_sel.best - 1) : sc[j] # sc[lk_sel.best]

\* the descriptive fields of a Paper that a link call may fill
DescriptiveFields ==
  {"abstract_text", "arxiv_primary_category", "arxiv_categories", "url", "doi", "journal",
   "publisher", "citation_count", "influential_citation_count", "reference_count",
   "authors", "citations", "references", "publication_date"}

\* C12: a successful link call with overwrite = false leaves every descriptive
\* field that was not empty / default before the call as it was.
C12_NonEmptyFieldsKept ==
  (lk_pc = "done" /\ lk_result = "Ok" /\ ~lk_call.overwrite)
     => \A f \in DescriptiveFields :
           lk_before[f] # DefaultPaper[f] => lk_paper[f] = lk_before[f]

\* C13: a link call that meets a transport failure or an empty result list
\* returns an error and leaves the paper exactly as it was.
C13_MissIsAnErrorAndNoChange ==
  (lk_pc = "done" /\ lk_call.source # ""
     /\ (~lk_call.response.ok \/ lk_call.response.results = <<>>))
     => (lk_result = "Err" /\ lk_paper = lk_before)

(***************************************************************************)
(* Properties of the orchestrator.                                         *)
(***************************************************************************)
\* two titles that differ at most in the case of their letters
FoldCase(c) == IF c \in {1, 3} THEN 1 ELSE IF c \in {2, 4} THEN 2 ELSE c

SameTitle(t1, t2) ==
  /\ Len(t1) = Len(t2)
  /\ \A i \in 1..Len(t1) : FoldCase(t1[i]) = FoldCase(t2[i])

Ledgered(c, title) == \E i \in 1..Len(c.papers) : SameTitle(c.papers[i].title, title)

Capitalized(title) ==
  [i \in 1..Len(title) |-> IF title[i] = 1 THEN 3 ELSE IF title[i] = 2 THEN 4 ELSE title[i]]

SavedPapers == Deserialize(disk.primary.doc).papers

PagesOf(title) == {k \in 1..Len(store.papers) : SameTitle(store.papers[k].title, title)}

C4_NoEnrichmentOfLedgered ==
  pc \in {"text", "summarize"} => ~Ledgered(cache, paper.title)

\* C10: a link call whose best candidate is below the threshold returns an
\* error to the orchestrator and the run goes on: no panic ends it.
C10_BelowThresholdIsAnError ==
  (last_link.candidates > 0 /\ ~last_link.accepted)
     => (last_link.result = "Err" /\ panic = "")

\* steps 3-7 of the processing of an item: text and keywords, summarize,
\* author persistence, paper persistence
ItemSteps == {"text", "summarize", "authors", "report"}

\* C14: in post_arxiv_papers no step 3-7 of an item ends the run: the loop
\* goes on to the next item, and on to the final save.
C14_NoItemStepEndsTheBatch ==
  [][(mode = "batch" /\ pc \in ItemSteps) => pc' # "idle"]_vars

\* C15: in post_arxiv_papers a step 3-7 at which a source, the endpoint or the
\* store fails appends exactly one entry with a non-empty reason to
\* failed_papers and gives way to the next item.
C15_EveryFailureIsLedgered ==
  [][(mode = "batch" /\ pc \in ItemSteps /\ faults' = faults + 1)
        => /\ pc' = "next"
           /\ Len(cache'.failed_papers) = Len(cache.failed_papers) + 1
           /\ cache'.failed_papers[Len(cache'.failed_papers)].failed_reason # ""]_vars

\* C16: in both commands a summarize call that fails ends the item: it does
\* not go on to author persistence or paper persistence.
C16_FailedSummaryEndsTheItem ==
  [][(pc = "summarize" /\ faults' = faults + 1)
        => (pc' \notin {"authors", "report"} /\ store' = store)]_vars

\* add_authors returns Err only when its cache.save() fails; the caller's Err
\* arm records the item with this reason
SaveFailedInAddAuthors ==
  \E k \in 1..Len(item_log) : item_log[k].reason = "Failed to add authors"

\* C17: in post_arxiv_papers, once cache.save() has failed inside add_authors,
\* no further item of the batch is processed.
C17_LedgerFailureStopsTheBatch ==
  (mode = "batch" /\ SaveFailedInAddAuthors) => pc \notin {"link_ss"} \cup ItemSteps

SavedFailedPapers == Deserialize(disk.primary.doc).failed_papers

\* C18: when a run has returned, the ledger file holds a paper entry for every
\* item of the run that was persisted and a failed-paper entry with its reason
\* for every item of the run that failed.
C18_SavedLedgerReflectsTheRun ==
  (pc = "idle" /\ runs > 0 /\ panic = "")
     => \A k \in 1..Len(item_log) :
           /\ item_log[k].outcome = "Success"
                => /\ disk.primary.kind = "doc"
                   /\ \E i \in 1..Len(SavedPapers) : SavedPapers[i].title = item_log[k].title
           /\ item_log[k].outcome = "Failed"
                => /\ disk.primary.kind = "doc"
                   /\ \E i \in 1..Len(SavedFailedPapers) :
                         /\ SavedFailedPapers[i].title = item_log[k].title
                         /\ SavedFailedPapers[i].failed_reason = item_log[k].reason
                         /\ item_log[k].reason # ""

\* C22: an error of a link call does not end the item: after the step in
\* which update_from_ss or update_from_arxiv returned an error, the item is
\* on its way to the dedup check and the later steps with the fields it had.
C22_LinkFailureKeepsTheItem ==
  [][(pc \in {"link_ss", "link_arxiv"} /\ last_link' # last_link
        /\ last_link'.result = "Err")
       => (pc' \in {"link_arxiv", "dedup", "text"} /\ paper' = paper)]_vars

\* C23: when text acquisition, keywords or summarize is about to run for an
\* item, its arXiv id and its Semantic Scholar id are both non-empty.
C23_BothIdsBeforeEnrichment ==
  pc \in {"text", "summarize"} => (paper.arxiv_id # "" /\ paper.ss_id # "")

\* C24: an item is summarized only when its acquired text has at least four
\* sections, in either command; with fewer the item has failed on the text
\* step as too short.
C24_ShortTextIsNeverSummarized ==
  pc = "summarize" => paper.original_text_len >= MinSections

\* the store holds an author page with that id, made for that external id
AuthorPageOf(e) ==
  \E n \in 1..Len(store.authors) : e.page_id = AuthorPageId(n) /\ store.authors[n] = e.ss_id

\* the store holds a paper page with that id whose content was appended
PaperPageOf(e) ==
  \E k \in 1..Len(store.papers) :
     store.papers[k].page_id = e.page_id /\ store.papers[k].content

\* C33: every entry of the ledger's author list stands for an author page the
\* store created, every entry of its paper list for a paper page the store
\* created and appended the content to, and every entry carries the
\* non-empty id the store returned.
C33_EntriesFollowTheStore ==
  /\ \A i \in 1..Len(cache.authors) :
       cache.authors[i].page_id # "" /\ AuthorPageOf(cache.authors[i])
  /\ \A i \in 1..Len(cache.papers) :
       cache.papers[i].page_id # "" /\ PaperPageOf(cache.papers[i])

C33_Witness ==
  /\ pc = "finish"
  /\ Len(cache.authors) = 2
  /\ Len(cache.papers) = 1
  /\ \E k \in 1..Len(store.papers) : ~store.papers[k].content

\* C36: add_a_paper is called for an item only when every author of the
\* item has a destination id in the ledger.
C36_PaperOnlyAfterAllAuthors ==
  pc = "report"
     => \A i \in 1..Len(paper.authors) : get_author_id(cache, paper.authors[i].ss_id) # ""

\* C37: when the processing of an item has ended, every paper page of the
\* store has its title in the paper list of the ledger.
C37_CreatedPagesAreLedgered ==
  pc \in {"next", "finish"}
     => \A k \in 1..Len(store.papers) : Ledgered(cache, store.papers[k].title)

\* C38: in a run of post_arxiv_papers, the item that add_a_paper appended to
\* the paper list is not recorded as failed: the step of the item in which
\* the paper list grows leaves the failed list as it was.
C38_NeverBothSucceededAndFailed ==
  [][(mode = "batch" /\ pc = "report" /\ Len(cache'.papers) > Len(cache.papers))
       => cache'.failed_papers = cache.failed_papers]_vars

\* C32: the store never holds two author records for one external author
\* id, whatever papers the runs process.
C32_OneAuthorRecordPerId ==
  \A m \in 1..Len(store.authors), n \in 1..Len(store.authors) :
     store.authors[m] = store.authors[n] => m = n

\* the title has an entry in the failed list of the ledger
FailedBefore(c, title) ==
  \E j \in 1..Len(c.failed_papers) : SameTitle(c.failed_papers[j].title, title)

\* C39: the dedup check reads the paper list only.  is_exist_paper answers
\* by the paper list whatever the failed list holds, and an item of
\* post_arxiv_papers whose title is in the failed list and not in the paper
\* list goes to the link step.
C39_FailedTitlesAreProcessedAgain ==
  /\ [](\A j \in 1..Len(cache.failed_papers) :
           is_exist_paper(cache, cache.failed_papers[j].title)
              <=> Ledgered(cache, cache.failed_papers[j].title))
  /\ [][(pc = "next" /\ todo # <<>> /\ FailedBefore(cache, Head(todo).title)
           /\ ~Ledgered(cache, Head(todo).title))
          => (pc' = "link_ss" /\ paper' = Head(todo) /\ cache' = cache)]_vars

\* a second run has recorded as failed a title the first run left in the
\* failed list of the saved ledger
C39_Witness ==
  /\ runs = 2
  /\ mode = "batch"
  /\ pc = "next"
  /\ Len(cache.failed_papers) = 2
  /\ cache.failed_papers[1].title = cache.failed_papers[2].title
  /\ Len(item_log) = 1
  /\ ~Ledgered(cache, cache.failed_papers[1].title)

(***************************************************************************)
(* Properties of SpecUtil.                                                 *)
(***************************************************************************)
\* the call of fn has returned
Returned(fn) == u_pc = "done" /\ u_call.fn = fn

\* C25: levenshtein_similarity of a string with itself is 1.0, for every
\* string, the empty string included.  (1.0 is 2^53 * 2^-53.)
C25_SimilarityWithItselfIsOne ==
  (Returned("levenshtein_similarity") /\ u_call.a = u_call.b)
     => (~u_out.nan /\ u_out.sig = <<2 * Limb, 0>>)

\* a normalised distance x = sig * 2^(-52 - exp) is a number with 0 <= x <= 1
InUnitInterval(x) ==
  /\ ~x.nan
  /\ \/ x.sig = <<0, 0>>
     \/ x.exp >= 1
     \/ (x.exp = 0 /\ x.sig = <<Limb, 0>>)

\* C26: for every pair of strings the similarity is the same in both orders
\* and is a number in (0, 1], and the normalised distance is a number in
\* [0, 1].
C26_SymmetricAndInRange ==
  /\ Returned("levenshtein_similarity")
       => /\ ~u_out.nan
          /\ u_out = levenshtein_similarity(u_call.b, u_call.a)
          /\ u_out.sig # <<0, 0>>
          /\ SigGe(<<2 * Limb, 0>>, u_out.sig)
  /\ Returned("levenshtein_dist_normalized") => InUnitInterval(u_out)

\* the least element of a non-empty set of numbers
Least(S) == CHOOSE m \in S : \A x \in S : m <= x

\* the edit distance by its recurrence: the least number of insertions,
\* deletions and substitutions of one character that turn s1 into s2
RECURSIVE EditDistance(_, _)
EditDistance(s1, s2) ==
  IF s1 = <<>> THEN Len(s2)
  ELSE IF s2 = <<>> THEN Len(s1)
  ELSE Least({EditDistance(Tail(s1), s2) + 1,
              EditDistance(s1, Tail(s2)) + 1,
              EditDistance(Tail(s1), Tail(s2))
                 + (IF Head(s1) = Head(s2) THEN 0 ELSE 1)})

\* C27: levenshtein_dist returns the edit distance of its arguments: 3 for
\* "kitten" and "sitting", 2 for "flaw" and "lawn", 0 for "flaw" and "flaw".
C27_DistanceIsTheEditDistance ==
  Returned("levenshtein_dist")
     => /\ u_out = EditDistance(u_call.a, u_call.b)
        /\ (u_call.a = Kitten /\ u_call.b = Sitting) => u_out = 3
        /\ (u_call.a = Flaw /\ u_call.b = Lawn) => u_out = 2
        /\ (u_call.a = Flaw /\ u_call.b = Flaw) => u_out = 0

C27_Witness ==
  /\ Returned("levenshtein_dist")
  /\ u_call.a = Kitten
  /\ u_call.b = Sitting
  /\ u_out = 3

\* C28: task_as_vec and domain_as_vec split the field on either delimiter:
\* no element of the list holds "," or "、", also when the field holds both;
\* "nlp,cv" gives ["nlp", "cv"]; a field without delimiter gives the list of
\* the field alone.
C28_ListViewsSplitOnEitherDelimiter ==
  (Returned("task_as_vec") \/ Returned("domain_as_vec"))
     => /\ \A i \in 1..Len(u_out) :
             ~contains(u_out[i], Comma) /\ ~contains(u_out[i], IdeographicComma)
        /\ u_call.a = NlpCv => u_out = <<<<110, 108, 112>>, <<99, 118>>>>
        /\ (~contains(u_call.a, Comma) /\ ~contains(u_call.a, IdeographicComma))
              => u_out = <<u_call.a>>

\* the author at index i of the call has a destination id in the ledger
HasLedgerId(i) == get_author_id(u_call.b, u_call.a[i].ss_id) # ""

\* how many authors up to index i have one
RankOf(i) == Cardinality({j \in 1..i : HasLedgerId(j)})

\* C34: the author relation add_a_paper sends has at most 100 ids; it is the
\* ledger's destination ids of the paper's authors that have one, in the
\* order of the authors, cut after the first 100.
C34_RelationIsTheFirstHundredIds ==
  Returned("author_ids")
     => /\ Len(u_out) <= 100
        /\ Len(u_out) = IF RankOf(Len(u_call.a)) > 100 THEN 100 ELSE RankOf(Len(u_call.a))
        /\ \A i \in 1..Len(u_call.a) :
             (HasLedgerId(i) /\ RankOf(i) <= 100)
                => u_out[RankOf(i)] = get_author_id(u_call.b, u_call.a[i].ss_id)

C34_Witness ==
  /\ Returned("author_ids")
  /\ Len(u_call.a) = 200
  /\ Len(u_call.b.authors) = 134
  /\ Len(u_out) = 100
  /\ u_out[100] = AuthorPageId(149)

(***************************************************************************)
(* Properties of SpecLedger.                                               *)
(***************************************************************************)
\* C29: is_exist_paper(title) is true exactly when the title of some paper
\* entry equals the given title once both are lower-cased, and the call
\* leaves the ledger as it was.
C29_IsExistPaperIgnoresCase ==
  /\ [](Returned("is_exist_paper") => (u_out <=> Ledgered(cache, u_call.a)))
  /\ [][(u_pc = "ready" /\ u_call'.fn = "is_exist_paper") => cache' = cache]_vars

C29_Witness ==
  /\ Returned("is_exist_paper")
  /\ u_call.a = <<3>>
  /\ Len(cache.papers) = 1
  /\ cache.papers[1].title = <<1>>
  /\ u_out

\* whether some author entry has the id
Listed(authors, id) == \E i \in 1..Len(authors) : authors[i].ss_id = id

\* the last entry of the author list with the id
LastListed(authors, id) ==
  CHOOSE i \in 1..Len(authors) :
    authors[i].ss_id = id /\ \A j \in (i + 1)..Len(authors) : authors[j].ss_id # id

\* C30: after any add_author calls on an empty or a built ledger,
\* is_exist_author(id) is true exactly when some author entry has the id,
\* and get_author_id(id) is the page id of the last entry appended with the
\* id (None without one); add_paper changes neither the author list nor the
\* index.
C30_IndexAgreesWithAuthorList ==
  /\ [](/\ Returned("is_exist_author") => (u_out <=> Listed(cache.authors, u_call.a))
        /\ Returned("get_author_id")
             => u_out = IF Listed(cache.authors, u_call.a)
                        THEN cache.authors[LastListed(cache.authors, u_call.a)].page_id
                        ELSE "")
  /\ [][cache'.papers # cache.papers
          => (cache'.authors = cache.authors /\ cache'.author_map = cache.author_map)]_vars

C30_Witness ==
  /\ Returned("get_author_id")
  /\ u_call.a = "a1"
  /\ Len(cache.authors) = 3
  /\ cache.authors[1] = [name |-> "n1", ss_id |-> "a1", page_id |-> "q2"]
  /\ cache.authors[3] = [name |-> "n1", ss_id |-> "a1", page_id |-> "q1"]
  /\ u_out = "q1"

(***************************************************************************)
(* Properties of SpecAuthors.                                              *)
(***************************************************************************)
\* C31: in add_authors, a create call that fails leaves the author, the
\* ledger and the disk as they were; a create call that succeeds sets the
\* page id of that author and of no other, appends the author to the ledger
\* with that id, and the ledger with the new author is on the disk when the
\* step ends, before another author is taken.
C31_AuthorAddedThenSaved ==
  [][ /\ lp_result' = "Failure"
         => (paper' = paper /\ cache' = cache /\ disk' = disk /\ store' = store)
      /\ Len(store'.authors) > Len(store.authors)
         => /\ paper'.authors =
                 [paper.authors EXCEPT ![lp_i].page_id = AuthorPageId(Len(store'.authors))]
            /\ cache'.authors =
                 Append(cache.authors,
                        [name |-> paper.authors[lp_i].name, ss_id |-> paper.authors[lp_i].ss_id,
                         page_id |-> AuthorPageId(Len(store'.authors))])
            /\ disk'.primary = DocFile(Serialize(cache')) ]_vars

(***************************************************************************)
(* Properties of SpecBuildFair.                                            *)
(***************************************************************************)
\* C40: Cache::build eventually returns, whatever the store answers to its
\* queries, a store whose queries keep failing included.
C40_BuildReturns == <>(lp_pc = "done")
====
